---- MODULE Spec2Model ----
(***************************************************************************)
(* RadLabs market maker and volume bot: the quoting, fill-detection,       *)
(* inventory and control-loop engine, as state machines.                   *)
(*                                                                         *)
(* Numbers.  The JavaScript source computes in IEEE doubles; here every    *)
(* quantity is a fixed-point integer:                                      *)
(*   price      integer, PriceScale units = 1.0 (tick 0)                   *)
(*   BTC        integer satoshi                                            *)
(*   RAD        integer base units (2 decimals, as in the source)          *)
(*   spread     integer hundredths of a basis point                        *)
(*   ratios     integer basis points (RatioScale = 1.0)                    *)
(* Divisions truncate where the source divides exactly.                    *)
(***************************************************************************)
EXTENDS Integers, Sequences, FiniteSets, TLC

VARIABLES
  positions,     \* every position object createLimitOrder has returned, by creation index
  active,        \* PositionManager.activePositions: sequence of indices into positions
  inventory,     \* InventoryTracker: [btc, rad, trades]
  pnl,           \* MarketMaker.pnl: [realized, unrealized, fees, trades]
  running,       \* MarketMaker.running
  pc,            \* control point of MarketMaker.run
  currentPrice,  \* the price of the cycle in progress (0 before the first fetch)
  poolVolume,    \* pool.volume24h of the cycle in progress
  cycle,         \* number of loop iterations started
  stopLossAt,    \* 0, or 1 + the number of positions created when the stop loss was hit
  lastCall,      \* the last component call: [op, price, id]
  lastError,     \* the error the last call threw, "none" if it returned
  vbObjects,     \* VolumeBot (ladder): every position object placeBid/placeAsk created
  vbPositions,   \* VolumeBot.positions: sequence of indices into vbObjects
  vbTickError,   \* VolumeBot (ladder): the error the catch block of the latest tick logged
  bots,          \* every VolumeBot the server has constructed: [running, paused, timer, ticks]
  activeBots,    \* server.js activeBots for the one (user, ticker) pair: 0 or an index into bots
  stateFile,     \* data/mm/<user>_<ticker>.json: [exists, allocation, inventory, positions]
  lastPaused,    \* the state the latest pause request persisted (exists FALSE before any)
  userPosition,  \* UserPositionManager.userPositions.get(user): the position record
  registered,    \* whether activeMarketMakers holds the user's market maker
  tickCall,      \* TickMath: [tick, tickSpacing] of a call, [done, result] of nearestUsableTick,
                 \* [rangeDone, lowerTick, upperTick] of limitOrderRange
  spreadCall,    \* SpreadCalculator: the arguments of a calculateSpread call, of a second
                 \* call with another inventory and of a third with another volatility,
                 \* their results, and the half-spreads and quotes of getQuotes
  ladder,        \* VolumeBot (ladder) in its first tick: [bot, placed, checked, before, fills]
  tracker,       \* BacktestRunner: mm.inventory of the market maker run() creates
  feeCall,       \* server: the requests of the fee computations and their responses
  createError,   \* UserPositionManager: the error the latest createPosition threw, or "none"
  vbStart,       \* VolumeBot: running, timer, the live interval timers, the start() and stop() calls
  rebal,         \* VolumeBot (ladder): the bot rebalanceIfNeeded is called on, and the calls made
  vt,            \* VolumeTrader: inventory, counters, price tracker and loop iteration
  atStop         \* what the market maker held when stopPosition ran, and whether a status
                 \* query has been answered since

mmVars == <<positions, active, inventory, pnl, running, pc, currentPrice, poolVolume,
            cycle, stopLossAt, lastCall, lastError>>
vbVars == <<vbObjects, vbPositions, vbTickError>>
botVars == <<bots, activeBots, stateFile, lastPaused>>
orchVars == <<userPosition, registered, atStop>>
tickVars == <<tickCall>>
fnVars == <<spreadCall, ladder>>
auxVars == <<tracker, feeCall, createError, vbStart, rebal, vt>>
\* auxVars but the named one
notTracker == <<feeCall, createError, vbStart, rebal, vt>>
notFeeCall == <<tracker, createError, vbStart, rebal, vt>>
notCreateError == <<tracker, feeCall, vbStart, rebal, vt>>
notVbStart == <<tracker, feeCall, createError, rebal, vt>>
notRebal == <<tracker, feeCall, createError, vbStart, vt>>
notVt == <<tracker, feeCall, createError, vbStart, rebal>>
vars == <<positions, active, inventory, pnl, running, pc, currentPrice, poolVolume,
          cycle, stopLossAt, lastCall, lastError, vbObjects, vbPositions, vbTickError,
          bots, activeBots, stateFile, lastPaused, userPosition, registered, atStop,
          tickCall, spreadCall, ladder, tracker, feeCall,
          createError, vbStart, rebal, vt>>

----------------------------------------------------------------------------
(* Units and program constants *)

PriceScale == 10 ^ 5
RatioScale == 10 ^ 4
RadDecimals == 100

MIN_TICK == -887272
MAX_TICK == 887272
TickSpacing == 200

baseSpreadBPS == 100
minSpreadBPS == 50
maxSpreadBPS == 200

\* MarketMaker.config.riskLimits.maxLoss = -0.1 and InventoryTracker thresholds, in basis points
maxLossBP == -1000
skewThresholdBP == 1000
rebalanceThresholdBP == 1500
maxInventorySkewBP == 2000
targetRatioBP == 5000
\* TOKENS.RAD.inventoryTarget.token
targetTokenRatioBP == 5750
\* TOKENS.RAD.reverseTradeRatio
reverseTradeRatioBP == 5000
\* the ratio checkFillsAndReverse falls back to: reverseTradeRatio || 0.5
defaultReverseRatioBP == 5000
\* the platform's share of the fees and of the profit: * 0.10
platformFeeBP == 1000
\* VolumeTrader.config: volumeTradeSize and profitTradeSize in 1e-6 BTC, maxDailyTrades,
\* meanReversionThreshold in percent; the fee of buy and sell in percent; the threshold
\* of rebalance in percent; 24 hours in loop intervals of 5 minutes
volumeTradeSize == 100
profitTradeSize == 500
maxDailyTrades == 20
meanReversionThresholdPct == 3
traderFeePct == 1
traderRebalanceThresholdPct == 30
dayIntervals == 288
\* MM_CONFIG.rebalanceThreshold
vbRebalanceThresholdBP == 1000
\* MM_CONFIG.radfiFeeRate
radfiFeeRateBP == 100
\* the approximate BTC price checkFillsAndReverse values a pool swap with
btcPriceUSD == 78600
\* recentVolatility is the literal 0.03 in run(); the volatility threshold is 0.05
recentVolatilityBP == 300
volatilityThresholdBP == 500
lowVolumeThreshold == 100

\* TOKENS.RAD.orderSizeBTC = 0.00001 BTC, in satoshi (startMarketMaker overrides the config)
orderSizeBTC == 1000
\* parameters of the modelled instance: the capital startMarketMaker passes, the price init() gets
initialCapital == 20 * orderSizeBTC
InitPrice == PriceScale

----------------------------------------------------------------------------
(* Bounds of the model *)

\* positions the component harness creates
MaxOrders == 2
\* ladder positions the harness places
MaxVbOrders == 2
\* tokenConfig.ladderLevels (5 in the source's default)
ladderLevels == 1
\* tokenConfig.price, the price updateMarketData reports
vbMarketPrice == PriceScale
\* iterations of MarketMaker.run
MaxCycles == 3
\* VolumeBot objects the server constructs
MaxBots == 2
\* ticks of one bot in flight at once
MaxTicks == 2

\* prices the pool can report, and target prices the harness quotes at
PoolPrices == {79000, 99000, 100000, 101000, 103000, 190000}
HarnessPrices == {97000, 99000, 101000, 103000, 105000}
TargetPrices == {99000, 101500}
PoolVolumes == {50, 426}
\* sizes given to createLimitOrder, placeBid and placeAsk
OrderSizes == {0, orderSizeBTC}
\* allocations deposited and prices api.getTokenPrice returns
Allocations == {20000}
BotPrices == {100000, 125000}

----------------------------------------------------------------------------
(* 1. TickMath *)

\* a * b / PriceScale, rounded to nearest, without leaving 32 bits
MulFix(a, b) ==
  LET hi == a * (b \div 1000)
      lo == a * (b % 1000)
  IN  hi \div 100 + ((hi % 100) * 1000 + lo + 50000) \div 100000

\* 1.0001 ^ (200 * k) in fixed point: 1.0001^200 = 1.0202003, 1.0001^-200 = 0.9801987
RECURSIVE Pow200(_)
Pow200(k) ==
  IF k = 0 THEN PriceScale
  ELSE IF k > 0 THEN LET q == Pow200(k - 1) IN q + (q * 2020 + 50000) \div 100000
  ELSE LET q == Pow200(k + 1) IN q - (q * 1980 + 50000) \div 100000

\* 1.0001 ^ r for 0 <= r < 200: 1 + r/10^4 + r(r-1)/(2*10^8)
PowSmall(r) == PriceScale + 10 * r + (r * (r - 1) + 1000) \div 2000

\* the bands of 200 ticks whose prices the fixed-point representation can hold
TickBands == 34
\* positions one detectFills call fills
MaxFills == 2
\* fills the backtest simulates
MaxBacktestFills == 3
\* iterations of the loop of VolumeTrader.run
MaxIterations == 21
\* start() calls and stop() calls made on one VolumeBot
MaxStartCalls == 2
MaxStops == 2
\* how far from MIN_TICK, 0 and MAX_TICK the ticks given to nearestUsableTick go
TickMargin == 30

Pow200Table == [k \in (-TickBands - 1)..(TickBands + 1) |-> Pow200(k)]

\* Math.pow(1.0001, tick)
tickToPrice(tick) == MulFix(Pow200Table[tick \div 200], PowSmall(tick % 200))

Max(a, b) == IF a >= b THEN a ELSE b
Min(a, b) == IF a <= b THEN a ELSE b

\* Math.floor(Math.log(price) / Math.log(1.0001)), clamped; defined for price > 0
priceToTick(price) ==
  LET k == CHOOSE j \in (-TickBands)..TickBands :
             Pow200Table[j] <= price /\ price < Pow200Table[j + 1]
      r == CHOOSE i \in 0..199 :
             /\ tickToPrice(200 * k + i) <= price
             /\ price < tickToPrice(200 * k + i + 1)
      tick == 200 * k + r
  IN  Max(MIN_TICK, Min(MAX_TICK, tick))

\* Math.round(x / s) for integers: floor(x / s + 1/2)
RoundDiv(x, s) == (2 * x + s) \div (2 * s)

nearestUsableTick(tick, tickSpacing) ==
  LET rounded == RoundDiv(tick, tickSpacing) * tickSpacing
  IN  Max(MIN_TICK, Min(MAX_TICK, rounded))

\* limitOrderRange from the centerTick that priceToTick(targetPrice) returned
limitOrderTicks(centerTick, tickSpacing) ==
  [lowerTick |-> nearestUsableTick(centerTick, tickSpacing),
   upperTick |-> nearestUsableTick(centerTick + tickSpacing, tickSpacing)]

limitOrderRange(targetPrice, tickSpacing) ==
  limitOrderTicks(priceToTick(targetPrice), tickSpacing)

----------------------------------------------------------------------------
(* 2. PositionManager *)

\* the position object createLimitOrder builds; applied counts the recordFill
\* calls made with this object (history, not a field of the source)
NewPosition(side, price, sizeBTC) ==
  LET range == limitOrderRange(price, TickSpacing)
  IN  [side |-> side, targetPrice |-> price, sizeBTC |-> sizeBTC,
       lowerTick |-> range.lowerTick, upperTick |-> range.upperTick,
       status |-> "open", applied |-> 0, path |-> "none"]

Range(seq) == {seq[i] : i \in DOMAIN seq}

----------------------------------------------------------------------------
(* 3. FillMonitor *)

\* const lowerPrice = TickMath.tickToPrice(position.lowerTick), and upperPrice
positionLowerPrice(position) == tickToPrice(position.lowerTick)
positionUpperPrice(position) == tickToPrice(position.upperTick)

\* one iteration of the loop of checkFills: the position's new status and how
\* many times it was pushed on fills
\* variant: the filled test also accepts an order that is still open
checkPositionFilledFromOpen(position, price) ==
  LET lowerPrice == tickToPrice(position.lowerTick)
      upperPrice == tickToPrice(position.upperTick)
      isInRange == price >= lowerPrice /\ price <= upperPrice
      s1 == IF isInRange /\ position.status = "open" THEN "filling" ELSE position.status
      s2 == IF position.side = "bid" /\ price > upperPrice /\ s1 \in {"open", "filling"}
            THEN "filled" ELSE s1
      s3 == IF position.side = "ask" /\ price < lowerPrice /\ s2 \in {"open", "filling"}
            THEN "filled" ELSE s2
  IN  [status |-> s3,
       pushes |-> (IF s1 # position.status THEN 1 ELSE 0)
                  + (IF s2 # s1 THEN 1 ELSE 0) + (IF s3 # s2 THEN 1 ELSE 0)]

\* variant: an ask is filled by a price above its range
checkPositionAskAbove(position, price) ==
  LET lowerPrice == tickToPrice(position.lowerTick)
      upperPrice == tickToPrice(position.upperTick)
      isInRange == price >= lowerPrice /\ price <= upperPrice
      s1 == IF isInRange /\ position.status = "open" THEN "filling" ELSE position.status
      s2 == IF position.side = "bid" /\ price > upperPrice /\ s1 = "filling"
            THEN "filled" ELSE s1
      s3 == IF position.side = "ask" /\ price > upperPrice /\ s2 = "filling"
            THEN "filled" ELSE s2
  IN  [status |-> s3,
       pushes |-> (IF s1 # position.status THEN 1 ELSE 0)
                  + (IF s2 # s1 THEN 1 ELSE 0) + (IF s3 # s2 THEN 1 ELSE 0)]

checkPosition(position, price) ==
  LET lowerPrice == tickToPrice(position.lowerTick)
      upperPrice == tickToPrice(position.upperTick)
      isInRange == price >= lowerPrice /\ price <= upperPrice
      s1 == IF isInRange /\ position.status = "open" THEN "filling" ELSE position.status
      s2 == IF position.side = "bid" /\ price > upperPrice /\ s1 = "filling"
            THEN "filled" ELSE s1
      s3 == IF position.side = "ask" /\ price < lowerPrice /\ s2 = "filling"
            THEN "filled" ELSE s2
  IN  [status |-> s3,
       pushes |-> (IF s1 # position.status THEN 1 ELSE 0)
                  + (IF s2 # s1 THEN 1 ELSE 0) + (IF s3 # s2 THEN 1 ELSE 0)]

\* the position table after checkFills(act, price): the objects in act are updated in place
checkFillsPositions(pos, act, price) ==
  [id \in DOMAIN pos |->
     IF id \in Range(act)
     THEN [pos[id] EXCEPT !.status = checkPosition(pos[id], price).status]
     ELSE pos[id]]

\* the array checkFills returns: each position once per push, in the order of act
RECURSIVE checkFillsResult(_, _, _)
checkFillsResult(pos, act, price) ==
  IF act = << >> THEN << >>
  ELSE LET n == checkPosition(pos[Head(act)], price).pushes
           mine == [i \in 1..n |-> Head(act)]
       IN  mine \o checkFillsResult(pos, Tail(act), price)

----------------------------------------------------------------------------
(* 4. InventoryTracker *)

\* sizeBTC / fillPrice * 100
radAmountOf(sizeBTC, fillPrice) == ((sizeBTC * PriceScale) \div fillPrice) * RadDecimals

recordFill(inv, position, fillPrice) ==
  LET radAmount == radAmountOf(position.sizeBTC, fillPrice)
  IN  IF position.side = "bid"
      THEN [btc |-> inv.btc - position.sizeBTC, rad |-> inv.rad + radAmount,
            trades |-> Append(inv.trades, [type |-> "buy", price |-> fillPrice,
                              btcAmount |-> position.sizeBTC, radAmount |-> radAmount])]
      ELSE IF position.side = "ask"
      THEN [btc |-> inv.btc + position.sizeBTC, rad |-> inv.rad - radAmount,
            trades |-> Append(inv.trades, [type |-> "sell", price |-> fillPrice,
                              btcAmount |-> position.sizeBTC, radAmount |-> radAmount])]
      ELSE inv

\* this.btc + (this.rad / 100 * currentPrice)
getTotalValueBTC(inv, price) == inv.btc + ((inv.rad \div RadDecimals) * price) \div PriceScale

\* btc / totalValue - targetRatio, in basis points
getImbalance(inv, price) ==
  LET totalValueBTC == getTotalValueBTC(inv, price)
  IN  IF totalValueBTC = 0 THEN 0
      ELSE (inv.btc * RatioScale) \div totalValueBTC - targetRatioBP

Abs(x) == IF x < 0 THEN -x ELSE x

needsRebalance(inv, price, threshold) == Abs(getImbalance(inv, price)) > threshold

\* InventoryTracker.init(btcAmount, currentPrice) on a fresh tracker
initInventory(btcAmount, price) ==
  [btc |-> btcAmount \div 2,
   rad |-> (((btcAmount \div 2) * PriceScale) \div price) * RadDecimals,
   trades |-> << >>]

----------------------------------------------------------------------------
(* 6. MarketMaker: the fill application of run(), step 2 *)

\* spreadCapture of one filled position at the cycle's price
spreadCapture(fill, price) ==
  IF fill.side = "bid"
  THEN ((price - fill.targetPrice) * fill.sizeBTC) \div fill.targetPrice
  ELSE ((fill.targetPrice - price) * fill.sizeBTC) \div price

\* variant: every element of fills is applied, whatever its status
RECURSIVE applyFillsEveryPush(_, _, _)
applyFillsEveryPush(st, fills, price) ==
  IF fills = << >> THEN st
  ELSE LET id == Head(fills)
           fill == st.positions[id]
           next == [positions |-> [st.positions EXCEPT ![id].applied = @ + 1],
                    inventory |-> recordFill(st.inventory, fill, price),
                    pnl |-> [st.pnl EXCEPT !.trades = @ + 1,
                                           !.realized = @ + spreadCapture(fill, price)]]
       IN  applyFillsEveryPush(next, Tail(fills), price)

\* for (const fill of fills) if (fill.status === 'filled') { recordFill; trades++; realized += ... }
\* st = [positions, inventory, pnl]; fills holds references, so the status read is the final one
RECURSIVE applyFills(_, _, _)
applyFills(st, fills, price) ==
  IF fills = << >> THEN st
  ELSE LET id == Head(fills)
           fill == st.positions[id]
           next ==
             IF fill.status = "filled"
             THEN [positions |-> [st.positions EXCEPT ![id].applied = @ + 1],
                   inventory |-> recordFill(st.inventory, fill, price),
                   pnl |-> [st.pnl EXCEPT !.trades = @ + 1,
                                          !.realized = @ + spreadCapture(fill, price)]]
             ELSE st
       IN  applyFills(next, Tail(fills), price)

\* steps 2 of run(): checkFills on the active positions, then the application loop
fillStep(pos, act, inv, p, price) ==
  applyFills([positions |-> checkFillsPositions(pos, act, price), inventory |-> inv, pnl |-> p],
             checkFillsResult(pos, act, price), price)

----------------------------------------------------------------------------
(* 5. SpreadCalculator; spreads in hundredths of a basis point *)

SpreadScale == 10 ^ 2

\* variant: the product of the adjustments is returned as it is
calculateSpreadUnclamped(inv, price, recentVolatility, poolVolume24h) ==
  LET imbalance == getImbalance(inv, price)
      a == baseSpreadBPS * SpreadScale
      b == IF imbalance > skewThresholdBP THEN (a * 12) \div 10
           ELSE IF imbalance < -skewThresholdBP THEN (a * 12) \div 10
           ELSE a
      c == IF recentVolatility > volatilityThresholdBP THEN (b * 15) \div 10 ELSE b
      spreadBPS == IF poolVolume24h < lowVolumeThreshold THEN (c * 13) \div 10 ELSE c
  IN  [spreadBPS |-> spreadBPS, bidSpread |-> spreadBPS \div 2, askSpread |-> spreadBPS \div 2]

\* variant: only an excess of BTC widens the spread
calculateSpreadOneSided(inv, price, recentVolatility, poolVolume24h) ==
  LET imbalance == getImbalance(inv, price)
      a == baseSpreadBPS * SpreadScale
      b == IF imbalance > skewThresholdBP THEN (a * 12) \div 10 ELSE a
      c == IF recentVolatility > volatilityThresholdBP THEN (b * 15) \div 10 ELSE b
      d == IF poolVolume24h < lowVolumeThreshold THEN (c * 13) \div 10 ELSE c
      spreadBPS == Max(minSpreadBPS * SpreadScale, Min(maxSpreadBPS * SpreadScale, d))
  IN  [spreadBPS |-> spreadBPS, bidSpread |-> spreadBPS \div 2, askSpread |-> spreadBPS \div 2]

calculateSpread(inv, price, recentVolatility, poolVolume24h) ==
  LET imbalance == getImbalance(inv, price)
      a == baseSpreadBPS * SpreadScale
      b == IF imbalance > skewThresholdBP THEN (a * 12) \div 10
           ELSE IF imbalance < -skewThresholdBP THEN (a * 12) \div 10
           ELSE a
      c == IF recentVolatility > volatilityThresholdBP THEN (b * 15) \div 10 ELSE b
      d == IF poolVolume24h < lowVolumeThreshold THEN (c * 13) \div 10 ELSE c
      spreadBPS == Max(minSpreadBPS * SpreadScale, Min(maxSpreadBPS * SpreadScale, d))
  IN  [spreadBPS |-> spreadBPS, bidSpread |-> spreadBPS \div 2, askSpread |-> spreadBPS \div 2]

\* variant: the wide side is widened more than the tight side is tightened
quoteSpreadsWiderOnly(price, spread, inv) ==
  LET imbalance == getImbalance(inv, price)
  IN  [bidSpread |-> IF imbalance > skewThresholdBP THEN (spread.bidSpread * 15) \div 10
                     ELSE IF imbalance < -skewThresholdBP THEN (spread.bidSpread * 8) \div 10
                     ELSE spread.bidSpread,
       askSpread |-> IF imbalance > skewThresholdBP THEN (spread.askSpread * 8) \div 10
                     ELSE IF imbalance < -skewThresholdBP THEN (spread.askSpread * 15) \div 10
                     ELSE spread.askSpread]

\* getQuotes: bidSpread and askSpread after the skew by the inventory
quoteSpreads(price, spread, inv) ==
  LET imbalance == getImbalance(inv, price)
  IN  [bidSpread |-> IF imbalance > skewThresholdBP THEN (spread.bidSpread * 12) \div 10
                     ELSE IF imbalance < -skewThresholdBP THEN (spread.bidSpread * 8) \div 10
                     ELSE spread.bidSpread,
       askSpread |-> IF imbalance > skewThresholdBP THEN (spread.askSpread * 8) \div 10
                     ELSE IF imbalance < -skewThresholdBP THEN (spread.askSpread * 12) \div 10
                     ELSE spread.askSpread]

getQuotes(price, spread, inv) ==
  LET bidSpread == quoteSpreads(price, spread, inv).bidSpread
      askSpread == quoteSpreads(price, spread, inv).askSpread
      bidPrice == price - (price * (bidSpread \div 10)) \div (RatioScale * (SpreadScale \div 10))
      askPrice == price + (price * (askSpread \div 10)) \div (RatioScale * (SpreadScale \div 10))
  IN  [bid |-> bidPrice, ask |-> askPrice, mid |-> price]

\* steps 5 and 6 of run(): the quotes of the cycle
cycleQuotes(inv, price, volume) ==
  getQuotes(price, calculateSpread(inv, price, recentVolatilityBP, volume), inv)

\* the record of a calculateSpread / getQuotes call that has not been made yet
noSpreadCall(inv, inv2, price, recentVolatility, recentVolatility2, poolVolume24h) ==
  [inventory |-> inv, inventory2 |-> inv2, currentPrice |-> price,
   recentVolatility |-> recentVolatility, recentVolatility2 |-> recentVolatility2,
   poolVolume24h |-> poolVolume24h,
   done |-> FALSE, spreadBPS |-> 0, spreadBPS2 |-> 0, spreadBPS3 |-> 0,
   quotesDone |-> FALSE, bidSpread |-> 0, askSpread |-> 0, bid |-> 0, ask |-> 0, mid |-> 0]

----------------------------------------------------------------------------
(* State after construction: new MarketMaker(...) and init(InitPrice); a new VolumeBot *)

\* every variable but tickCall and spreadCall
InitOthers ==
  /\ positions = << >>
  /\ active = << >>
  /\ inventory = initInventory(initialCapital, InitPrice)
  /\ pnl = [realized |-> 0, unrealized |-> 0, fees |-> 0, trades |-> 0]
  /\ running = FALSE
  /\ pc = "idle"
  /\ currentPrice = 0
  /\ poolVolume = 0
  /\ cycle = 0
  /\ stopLossAt = 0
  /\ lastCall = [op |-> "none", price |-> 0, id |-> 0]
  /\ lastError = "none"
  /\ vbObjects = << >>
  /\ vbPositions = << >>
  /\ vbTickError = "none"
  /\ bots = << >>
  /\ activeBots = 0
  /\ stateFile = [exists |-> FALSE, allocation |-> 0, inventory |-> [btc |-> 0, token |-> 0],
                  positions |-> 0]
  /\ userPosition = [status |-> "none", currentValueBTC |-> 0, realizedPnL |-> 0,
                     unrealizedPnL |-> 0, totalTrades |-> 0]
  /\ registered = FALSE
  /\ atStop = [stopped |-> FALSE, queried |-> FALSE, currentValueBTC |-> 0, realizedPnL |-> 0,
               unrealizedPnL |-> 0, totalTrades |-> 0]
  /\ lastPaused = [exists |-> FALSE, allocation |-> 0, inventory |-> [btc |-> 0, token |-> 0],
                   positions |-> 0]

\* a ladder VolumeBot after start(): positions [], metrics at 0, the inventory, the market
\* price, ladderLevels, pingPongEnabled and reverseTradeRatio (bps) as given; fees are kept in 1/10000 satoshi.
\* reverseTrades counts the marketSell / marketBuy calls made and reverseVolume adds up
\* their BTC amounts (history, not fields of the source)
ladderBot(btc, token, price, levels, pingPongEnabled, reverseTradeRatio) ==
  [inventory |-> [btc |-> btc, token |-> token], price |-> price,
   levels |-> levels, pingPongEnabled |-> pingPongEnabled,
   reverseTradeRatio |-> reverseTradeRatio, positions |-> << >>,
   metrics |-> [volumeGenerated |-> 0, volumeGenerated24h |-> 0, tradingFeesPaid |-> 0,
                trades |-> 0],
   reverseTrades |-> 0, reverseVolume |-> 0]

\* the state of a first tick in which neither placeLadderOrders nor checkFillsAndReverse
\* has run; before is the inventory checkFillsAndReverse found, fills the indices it got
\* from detectFills, swapValue the volumeUSD of the swaps the pool-swap version of
\* checkFillsAndReverse counted
ladderTick(bot) ==
  [bot |-> bot, placed |-> FALSE, checked |-> FALSE,
   before |-> [btc |-> 0, token |-> 0], fills |-> << >>, swapValue |-> 0]

\* no ladder bot in its tick
InitLadder ==
  ladder = ladderTick(ladderBot(0, 0, vbMarketPrice, ladderLevels, FALSE, reverseTradeRatioBP))

\* no call of TickMath made
InitTickCall ==
  tickCall = [tick |-> 0, tickSpacing |-> TickSpacing, done |-> FALSE, result |-> 0,
              rangeDone |-> FALSE, lowerTick |-> 0, upperTick |-> 0]

\* no call of SpreadCalculator made
InitSpreadCall ==
  spreadCall = noSpreadCall(initInventory(initialCapital, InitPrice),
                            initInventory(initialCapital, InitPrice),
                            InitPrice, recentVolatilityBP, recentVolatilityBP, 0)

\* no backtest run: the tracker of a market maker that init() has not filled
InitTracker ==
  tracker = [btc |-> 0, rad |-> 0, trades |-> << >>]

\* a request of POST /api/market-maker/calculate and the metrics POST /api/volume-bot/withdraw
\* gets from the performance monitor, neither handled yet; amounts in satoshi
noFeeCall(depositedBTC, feesEarned, entryPrice, price, netPnL) ==
  [depositedBTC |-> depositedBTC, feesEarned |-> feesEarned, entryPrice |-> entryPrice,
   currentPrice |-> price, done |-> FALSE, ilLoss |-> 0, currentValue |-> 0,
   totalPnL |-> 0, platformFee |-> 0, userFees |-> 0,
   netPnL |-> netPnL, withdrawn |-> FALSE, withdrawFee |-> 0, netWithdrawal |-> 0]

\* no fee computation requested
InitFeeCall ==
  feeCall = noFeeCall(initialCapital, 0, InitPrice, InitPrice, 0)

\* new VolumeBot(...): running = false, timer = null (0), no interval timer set; no
\* start() call made (its control point is "none"), no stop() call made
InitVbStart ==
  vbStart = [running |-> FALSE, timer |-> 0, liveTimers |-> {},
             calls |-> [c \in 1..MaxStartCalls |-> "none"], stops |-> 0]

\* a bot at its target.btc (bps), before is its inventory, calls the rebalanceIfNeeded
\* calls made on it
rebalCall(bot, target) == [bot |-> bot, target |-> target, before |-> bot.inventory, calls |-> 0]

\* no rebalanceIfNeeded call to make
InitRebal ==
  rebal = rebalCall(ladderBot(0, 0, vbMarketPrice, ladderLevels, FALSE, reverseTradeRatioBP),
                    RatioScale - targetTokenRatioBP)

\* new VolumeTrader({ capitalBTC }) followed by init(startPrice); amounts in 1e-6 BTC.
\* btc, tokens, feesPaid, capitalBTC are the fields of the source; trades is
\* trades.length and lastTrade the loop iteration of the latest trade (0: none), the
\* timestamps being those of the iterations; feeSum adds up the fee fields of the trades
\* pushed; priceSum and priceCount are the sum and the length of priceHistory; constant
\* tells that every price fetched so far was startPrice; volume, profit and rebalance
\* count the trades by type; fetched is the set of prices fetchCurrentPrice returns in
\* this run
newTrader(capitalBTC, startPrice, fetched) ==
  [capitalBTC |-> capitalBTC, btc |-> capitalBTC \div 2,
   tokens |-> ((capitalBTC \div 2) * PriceScale) \div startPrice,
   feesPaid |-> 0, feeSum |-> 0, trades |-> 0, lastTrade |-> 0, iter |-> 0,
   price |-> startPrice, priceSum |-> startPrice, priceCount |-> 1, constant |-> TRUE,
   volume |-> 0, profit |-> 0, rebalance |-> 0, fetched |-> fetched]

\* no trader running
InitVt ==
  vt = newTrader(0, InitPrice, {InitPrice})

InitAux ==
  /\ InitTracker
  /\ InitFeeCall
  /\ createError = "none"
  /\ InitVbStart
  /\ InitRebal
  /\ InitVt

Init ==
  /\ InitOthers
  /\ InitTickCall
  /\ InitSpreadCall
  /\ InitLadder
  /\ InitAux

loopVars == <<running, pc, currentPrice, poolVolume, cycle, stopLossAt>>

----------------------------------------------------------------------------
(* The components driven call by call: PositionManager, FillMonitor,       *)
(* InventoryTracker, and the ladder positions of VolumeBot                 *)

\* positionManager.createLimitOrder({side, price, sizeBTC})
CreateLimitOrder(side, price, sizeBTC) ==
  /\ Len(positions) < MaxOrders
  /\ vbObjects = << >>
  /\ lastCall' = [op |-> "createLimitOrder", price |-> 0, id |-> Len(positions) + 1]
  /\ IF price <= 0
     THEN /\ lastError' = "Price must be positive"
          /\ UNCHANGED <<positions, active>>
     ELSE /\ lastError' = "none"
          /\ positions' = Append(positions, NewPosition(side, price, sizeBTC))
          /\ active' = Append(active, Len(positions) + 1)
  /\ UNCHANGED <<inventory, pnl, loopVars, vbVars, botVars, orchVars, tickVars, fnVars, auxVars>>

\* history of the prices an order has been checked at: "below" after a check that saw it
\* open under its range, "entered" once the next checks found the price inside the range,
\* "crossed" when the check after that found the price above the range
trackPath(position, price) ==
  LET inRange == price >= tickToPrice(position.lowerTick)
                 /\ price <= tickToPrice(position.upperTick)
  IN  IF position.status = "open" /\ price < tickToPrice(position.lowerTick) THEN "below"
      ELSE IF position.path \in {"below", "entered"} /\ inRange THEN "entered"
      ELSE IF position.path = "entered" /\ price > tickToPrice(position.upperTick)
           THEN "crossed"
      ELSE "none"

\* fillMonitor.checkFills(getActivePositions(), price) and the application of its result
CheckFills(price) ==
  LET st == fillStep(positions, active, inventory, pnl, price)
  IN  /\ lastCall' = [op |-> "checkFills", price |-> price, id |-> 0]
      /\ lastError' = "none"
      /\ positions' = [id \in DOMAIN positions |->
             IF id \in Range(active)
             THEN [st.positions[id] EXCEPT !.path = trackPath(positions[id], price)]
             ELSE st.positions[id]]
      /\ inventory' = st.inventory
      /\ pnl' = st.pnl
      /\ UNCHANGED <<active, loopVars, vbVars, botVars, orchVars, tickVars, fnVars, auxVars>>

\* positionManager.cancelAllPositions()
CancelAllPositions ==
  /\ lastCall' = [op |-> "cancelAllPositions", price |-> 0, id |-> 0]
  /\ lastError' = "none"
  /\ active' = << >>
  /\ UNCHANGED <<positions, inventory, pnl, loopVars, vbVars, botVars, orchVars, tickVars, fnVars, auxVars>>

\* inventory.recordFill(position, price) called a second time with a position whose fill
\* has been applied once
RecordFillAgain(id, price) ==
  /\ id \in DOMAIN positions
  /\ price = positions[id].targetPrice
  /\ positions[id].status = "filled"
  /\ positions[id].applied = 1
  /\ lastCall' = [op |-> "recordFill", price |-> price, id |-> id]
  /\ lastError' = "none"
  /\ inventory' = recordFill(inventory, positions[id], price)
  /\ positions' = [positions EXCEPT ![id].applied = @ + 1]
  /\ UNCHANGED <<active, pnl, loopVars, vbVars, botVars, orchVars, tickVars, fnVars, auxVars>>

\* VolumeBot.placeBid(price, sizeBTC)
VbPlaceBid(price, sizeBTC) ==
  /\ positions = << >>
  /\ Len(vbObjects) < MaxVbOrders
  /\ vbObjects' = Append(vbObjects,
        [side |-> "bid", price |-> price, sizeBTC |-> sizeBTC,
         sizeToken |-> (sizeBTC * PriceScale) \div price, status |-> "open"])
  /\ vbPositions' = Append(vbPositions, Len(vbObjects) + 1)
  /\ UNCHANGED <<vbTickError, mmVars, botVars, orchVars, tickVars, fnVars, auxVars>>

\* VolumeBot.placeAsk(price, sizeToken)
VbPlaceAsk(price, sizeToken) ==
  /\ positions = << >>
  /\ Len(vbObjects) < MaxVbOrders
  /\ vbObjects' = Append(vbObjects,
        [side |-> "ask", price |-> price, sizeBTC |-> (sizeToken * price) \div PriceScale,
         sizeToken |-> sizeToken, status |-> "open"])
  /\ vbPositions' = Append(vbPositions, Len(vbObjects) + 1)
  /\ UNCHANGED <<vbTickError, mmVars, botVars, orchVars, tickVars, fnVars, auxVars>>

\* VolumeBot.detectFills(): each open position of this.positions is filled with
\* probability expectedFillRate; filledSet is the set the random draws select
VbDetectFills(filledSet) ==
  /\ filledSet \subseteq Range(vbPositions)
  /\ filledSet # {}
  /\ vbObjects' = [i \in DOMAIN vbObjects |->
        IF i \in filledSet /\ vbObjects[i].status = "open"
        THEN [vbObjects[i] EXCEPT !.status = "filled"]
        ELSE vbObjects[i]]
  /\ UNCHANGED <<vbPositions, vbTickError, mmVars, botVars, orchVars, tickVars, fnVars, auxVars>>

\* VolumeBot.cancelAllPositions()
VbCancelAllPositions ==
  /\ vbObjects' = [i \in DOMAIN vbObjects |->
        IF i \in Range(vbPositions) /\ vbObjects[i].status = "open"
        THEN [vbObjects[i] EXCEPT !.status = "cancelled"]
        ELSE vbObjects[i]]
  /\ vbPositions' = << >>
  /\ UNCHANGED <<vbTickError, mmVars, botVars, orchVars, tickVars, fnVars, auxVars>>

\* the position objects placeBid and placeAsk build
vbBid(price, sizeBTC) ==
  [side |-> "bid", price |-> price, sizeBTC |-> sizeBTC,
   sizeToken |-> (sizeBTC * PriceScale) \div price, status |-> "open"]

vbAsk(price, sizeToken) ==
  [side |-> "ask", price |-> price, sizeBTC |-> (sizeToken * price) \div PriceScale,
   sizeToken |-> sizeToken, status |-> "open"]

\* VolumeBot.tick() of the ladder bot, for a running bot whose risk limits are not hit:
\* cancelAllPositions, placeLadderOrders (ladderLevels bids, then as many asks),
\* checkFillsAndReverse (detectFills selects filledSet among the new orders), saveState.
\* No step before saveState waits for anything outside the process; saveState's
\* fs.mkdir / fs.writeFile can reject, and the catch block logs the error.
VbTick(filledSet, saveFails) ==
  LET n        == Len(vbObjects)
      cancelled == [i \in DOMAIN vbObjects |->
                      IF i \in Range(vbPositions) /\ vbObjects[i].status = "open"
                      THEN [vbObjects[i] EXCEPT !.status = "cancelled"]
                      ELSE vbObjects[i]]
      bids     == [k \in 1..ladderLevels |->
                      vbBid((vbMarketPrice * (RatioScale - 250 - (k - 1) * 100)) \div RatioScale,
                            orderSizeBTC)]
      asks     == [k \in 1..ladderLevels |->
                      vbAsk((vbMarketPrice * (RatioScale + 250 + (k - 1) * 100)) \div RatioScale,
                            orderSizeBTC)]
      placed   == cancelled \o bids \o asks
      newIds   == [k \in 1..(2 * ladderLevels) |-> n + k]
  IN  /\ positions = << >>
      /\ n <= MaxVbOrders
      /\ filledSet \subseteq Range(newIds)
      /\ vbObjects' = [i \in DOMAIN placed |->
            IF i \in filledSet THEN [placed[i] EXCEPT !.status = "filled"] ELSE placed[i]]
      /\ vbPositions' = newIds
      /\ vbTickError' = IF saveFails THEN "saveState failed" ELSE "none"
      /\ UNCHANGED <<mmVars, botVars, orchVars, tickVars, fnVars, auxVars>>

FillNext ==
  \/ \E side \in {"bid", "ask"}, price \in TargetPrices \cup {0}, sizeBTC \in OrderSizes :
        CreateLimitOrder(side, price, sizeBTC)
  \/ \E price \in HarnessPrices : CheckFills(price)
  \/ CancelAllPositions
  \/ \E id \in 1..MaxOrders, price \in TargetPrices : RecordFillAgain(id, price)
  \/ \E price \in {97500}, sizeBTC \in OrderSizes : VbPlaceBid(price, sizeBTC)
  \/ \E price \in {102500}, sizeToken \in OrderSizes : VbPlaceAsk(price, sizeToken)
  \/ \E filledSet \in SUBSET (1..MaxVbOrders) : VbDetectFills(filledSet)
  \/ VbCancelAllPositions
  \/ \E filledSet \in SUBSET (1..(MaxVbOrders + 2 * ladderLevels)), saveFails \in BOOLEAN :
        VbTick(filledSet, saveFails)

SpecFill == Init /\ [][FillNext]_vars

----------------------------------------------------------------------------
(* MarketMaker.run(): one action per step of the loop body. fetchPool is    *)
(* the loop's only external call: the pool it returns is the environment's  *)
(* choice. The other awaits resume without any other task in between, and   *)
(* the sleeps are where MarketMaker.shutdown() can be called from outside.  *)

\* this.running = true; while (this.running) {
Run ==
  /\ pc = "idle"
  /\ running' = TRUE
  /\ pc' = "fetch"
  /\ UNCHANGED <<positions, active, inventory, pnl, currentPrice, poolVolume, cycle,
                 stopLossAt, lastCall, lastError, vbVars, botVars, orchVars, tickVars, fnVars, auxVars>>

\* 1. const pool = await this.fetchPool(); const currentPrice = this.calculatePrice(pool)
FetchPool(price, volume24h) ==
  /\ pc = "fetch"
  /\ running
  /\ cycle < MaxCycles
  /\ currentPrice' = price
  /\ poolVolume' = volume24h
  /\ cycle' = cycle + 1
  /\ pc' = "fills"
  /\ lastCall' = [op |-> "fetchPool", price |-> price, id |-> 0]
  /\ UNCHANGED <<positions, active, inventory, pnl, running, stopLossAt, lastError, vbVars, botVars, orchVars, tickVars, fnVars, auxVars>>

\* variant: an exception in the cycle ends the loop
FetchPoolFailsEndsLoop ==
  /\ pc = "fetch"
  /\ running
  /\ cycle < MaxCycles
  /\ cycle' = cycle + 1
  /\ running' = FALSE
  /\ pc' = "done"
  /\ lastError' = "fetchPool failed"
  /\ lastCall' = [op |-> "fetchPool", price |-> 0, id |-> 0]
  /\ UNCHANGED <<positions, active, inventory, pnl, currentPrice, poolVolume,
                 stopLossAt, vbVars, botVars, orchVars, tickVars, fnVars, auxVars>>

\* fetchPool rejects: catch (error) { await this.sleep(5000) }
FetchPoolFails ==
  /\ pc = "fetch"
  /\ running
  /\ cycle < MaxCycles
  /\ cycle' = cycle + 1
  /\ pc' = "errSleep"
  /\ lastError' = "fetchPool failed"
  /\ lastCall' = [op |-> "fetchPool", price |-> 0, id |-> 0]
  /\ UNCHANGED <<positions, active, inventory, pnl, running, currentPrice, poolVolume,
                 stopLossAt, vbVars, botVars, orchVars, tickVars, fnVars, auxVars>>

\* while (this.running) finds running false
LoopExit ==
  /\ pc = "fetch"
  /\ ~running
  /\ pc' = "done"
  /\ UNCHANGED <<positions, active, inventory, pnl, running, currentPrice, poolVolume,
                 cycle, stopLossAt, lastCall, lastError, vbVars, botVars, orchVars, tickVars, fnVars, auxVars>>

\* 2. checkFills on the active positions and the application of the filled ones
CheckFillsStep ==
  LET st == fillStep(positions, active, inventory, pnl, currentPrice)
  IN  /\ pc = "fills"
      /\ positions' = st.positions
      /\ inventory' = st.inventory
      /\ pnl' = st.pnl
      /\ pc' = "rebalance"
      /\ lastCall' = [op |-> "checkFills", price |-> currentPrice, id |-> 0]
      /\ UNCHANGED <<active, running, currentPrice, poolVolume, cycle, stopLossAt,
                     lastError, vbVars, botVars, orchVars, tickVars, fnVars, auxVars>>

\* 3. if (this.inventory.needsRebalance(currentPrice)) await this.rebalance(currentPrice):
\* rebalance only logs
RebalanceStep ==
  /\ pc = "rebalance"
  /\ pc' = "cancel"
  /\ lastCall' = [op |-> IF ~needsRebalance(inventory, currentPrice, rebalanceThresholdBP)
                         THEN "noRebalance"
                         ELSE IF Abs(getImbalance(inventory, currentPrice)) > maxInventorySkewBP
                         THEN "rebalanceSwapLogged"
                         ELSE "rebalance",
                  price |-> currentPrice, id |-> 0]
  /\ UNCHANGED <<positions, active, inventory, pnl, running, currentPrice, poolVolume,
                 cycle, stopLossAt, lastError, vbVars, botVars, orchVars, tickVars, fnVars, auxVars>>

\* variant: the old positions stay in the active set when the new quotes are placed
CancelStepKeepsActive ==
  /\ pc = "cancel"
  /\ pc' = "placeBid"
  /\ lastCall' = [op |-> "cancelAllPositions", price |-> 0, id |-> 0]
  /\ UNCHANGED <<positions, active, inventory, pnl, running, currentPrice, poolVolume, cycle,
                 stopLossAt, lastError, vbVars, botVars, orchVars, tickVars, fnVars, auxVars>>

\* 4. await this.positionManager.cancelAllPositions()
CancelStep ==
  /\ pc = "cancel"
  /\ active' = << >>
  /\ pc' = "placeBid"
  /\ lastCall' = [op |-> "cancelAllPositions", price |-> 0, id |-> 0]
  /\ UNCHANGED <<positions, inventory, pnl, running, currentPrice, poolVolume, cycle,
                 stopLossAt, lastError, vbVars, botVars, orchVars, tickVars, fnVars, auxVars>>

\* createLimitOrder inside run(): a throw of priceToTick goes to the catch block
placeOrder(side, price, nextPc) ==
  /\ lastCall' = [op |-> "createLimitOrder", price |-> 0, id |-> Len(positions) + 1]
  /\ IF price <= 0
     THEN /\ lastError' = "Price must be positive"
          /\ pc' = "errSleep"
          /\ UNCHANGED <<positions, active>>
     ELSE /\ lastError' = lastError
          /\ pc' = nextPc
          /\ positions' = Append(positions, NewPosition(side, price, orderSizeBTC))
          /\ active' = Append(active, Len(positions) + 1)
  /\ UNCHANGED <<inventory, pnl, running, currentPrice, poolVolume, cycle, stopLossAt, vbVars, botVars, orchVars, tickVars, fnVars, auxVars>>

\* 5, 6, 7. the spread, the quotes and the bid order
PlaceBid ==
  /\ pc = "placeBid"
  /\ placeOrder("bid", cycleQuotes(inventory, currentPrice, poolVolume).bid, "placeAsk")

\* 7. the ask order
PlaceAsk ==
  /\ pc = "placeAsk"
  /\ placeOrder("ask", cycleQuotes(inventory, currentPrice, poolVolume).ask, "risk")

\* this.pnl.unrealized = currentValue - this.initialCapital
\* variant: the inventory valued at the entry price
unrealizedAtEntryPrice(inv, price) == getTotalValueBTC(inv, InitPrice) - initialCapital

unrealizedPnL(inv, price) == getTotalValueBTC(inv, price) - initialCapital

\* totalPnL / this.initialCapital < this.config.riskLimits.maxLoss
stopLossHit(p) == (p.realized + p.unrealized) * RatioScale < maxLossBP * initialCapital

\* variant: the risk check records the stop loss but the loop goes on
RiskStepKeepsRunning ==
  LET p == [pnl EXCEPT !.unrealized = unrealizedPnL(inventory, currentPrice)]
  IN  /\ pc = "risk"
      /\ pnl' = p
      /\ pc' = "sleep"
      /\ stopLossAt' = IF stopLossHit(p) THEN Len(positions) + 1 ELSE stopLossAt
      /\ lastCall' = [op |-> "sleep", price |-> currentPrice, id |-> 0]
      /\ UNCHANGED <<positions, active, inventory, running, currentPrice, poolVolume, cycle,
                     lastError, vbVars, botVars, orchVars, tickVars, fnVars, auxVars>>

\* 8, 9. unrealized PnL and the risk check: shutdown() and break, or go to sleep
RiskStep ==
  LET p == [pnl EXCEPT !.unrealized = unrealizedPnL(inventory, currentPrice)]
  IN  /\ pc = "risk"
      /\ pnl' = p
      /\ IF stopLossHit(p)
         THEN /\ running' = FALSE
              /\ active' = << >>
              /\ pc' = "done"
              /\ stopLossAt' = Len(positions) + 1
              /\ lastCall' = [op |-> "shutdown", price |-> currentPrice, id |-> 0]
         ELSE /\ pc' = "sleep"
              /\ lastCall' = [op |-> "sleep", price |-> currentPrice, id |-> 0]
              /\ UNCHANGED <<running, active, stopLossAt>>
      /\ UNCHANGED <<positions, inventory, currentPrice, poolVolume, cycle, lastError, vbVars, botVars, orchVars, tickVars, fnVars, auxVars>>

\* the sleep's timer fires: back to the loop condition
Wake ==
  /\ pc \in {"sleep", "errSleep"}
  /\ pc' = "fetch"
  /\ UNCHANGED <<positions, active, inventory, pnl, running, currentPrice, poolVolume,
                 cycle, stopLossAt, lastCall, lastError, vbVars, botVars, orchVars, tickVars, fnVars, auxVars>>

\* MarketMaker.shutdown() called from outside while the loop sleeps
Shutdown ==
  /\ pc \in {"sleep", "errSleep"}
  /\ running
  /\ running' = FALSE
  /\ active' = << >>
  /\ lastCall' = [op |-> "shutdown", price |-> 0, id |-> 0]
  /\ UNCHANGED <<positions, inventory, pnl, pc, currentPrice, poolVolume, cycle,
                 stopLossAt, lastError, vbVars, botVars, orchVars, tickVars, fnVars, auxVars>>

MMNext ==
  \/ Run
  \/ \E price \in PoolPrices, volume24h \in PoolVolumes : FetchPool(price, volume24h)
  \/ FetchPoolFails
  \/ LoopExit
  \/ CheckFillsStep
  \/ RebalanceStep
  \/ CancelStep
  \/ PlaceBid
  \/ PlaceAsk
  \/ RiskStep
  \/ Wake
  \/ Shutdown

SpecMM == Init /\ [][MMNext]_vars

\* the timer of sleep() fires: a sleeping loop is resumed
SpecMMFair == SpecMM /\ WF_vars(Wake)

-----------------------------------------------------------------------------
(* TickMath.nearestUsableTick as a function of its two arguments             *)

\* ticks within TickMargin of MIN_TICK, of 0 and of MAX_TICK
TickInputs ==
  (MIN_TICK..(MIN_TICK + TickMargin)) \cup ((-TickMargin)..TickMargin)
     \cup ((MAX_TICK - TickMargin)..MAX_TICK)

\* the tick spacings of the fee tiers, 200 being the one the market maker uses
TickSpacings == {1, 10, 60, TickSpacing}

\* a call with any tick of TickInputs and any spacing of TickSpacings is about to be made
InitTick ==
  /\ InitOthers
  /\ InitAux
  /\ InitSpreadCall
  /\ InitLadder
  /\ \E tick \in TickInputs, tickSpacing \in TickSpacings :
        tickCall = [tick |-> tick, tickSpacing |-> tickSpacing, done |-> FALSE, result |-> 0,
                    rangeDone |-> FALSE, lowerTick |-> 0, upperTick |-> 0]

\* TickMath.nearestUsableTick(tick, tickSpacing)
NearestUsableTick ==
  /\ ~tickCall.done
  /\ tickCall' = [tickCall EXCEPT
                     !.done = TRUE,
                     !.result = nearestUsableTick(tickCall.tick, tickCall.tickSpacing)]
  /\ UNCHANGED <<mmVars, vbVars, botVars, orchVars, fnVars, auxVars>>

\* TickMath.limitOrderRange(targetPrice, tickSpacing) for a target price whose tick,
\* Math.floor(Math.log(targetPrice) / Math.log(1.0001)), is tickCall.tick: the prices of
\* the ticks near MIN_TICK and MAX_TICK (1e-39 to 1e38) are doubles the fixed-point prices
\* do not reach, so the call is given by the tick of its price
LimitOrderRange ==
  LET range == limitOrderTicks(Max(MIN_TICK, Min(MAX_TICK, tickCall.tick)), tickCall.tickSpacing)
  IN  /\ ~tickCall.rangeDone
      /\ tickCall' = [tickCall EXCEPT !.rangeDone = TRUE,
                                      !.lowerTick = range.lowerTick,
                                      !.upperTick = range.upperTick]
      /\ UNCHANGED <<mmVars, vbVars, botVars, orchVars, fnVars, auxVars>>

TickNext ==
  \/ NearestUsableTick
  \/ LimitOrderRange

SpecTick == InitTick /\ [][TickNext]_vars

-----------------------------------------------------------------------------
(* SpreadCalculator.calculateSpread and getQuotes as functions of their     *)
(* arguments                                                                 *)

\* inventories from 16.7% to 75% BTC at price 1.0: 5000.00 RAD and the BTC of SpreadBtc
SpreadBtc == {1000, 3000, 4000, 5000, 6000, 7500, 8000, 15000}
SpreadInventories == {[btc |-> b, rad |-> 5000 * RadDecimals, trades |-> << >>] : b \in SpreadBtc}
SpreadPrices == {PriceScale \div 2, PriceScale, 2 * PriceScale}
\* recentVolatility in basis points, around the 5% threshold
SpreadVolatilities == {0, recentVolatilityBP, volatilityThresholdBP, volatilityThresholdBP + 1}
\* poolVolume24h around the threshold of 100
SpreadVolumes == {0, lowVolumeThreshold - 1, lowVolumeThreshold, 426}

\* three calculateSpread calls are about to be made: with (inventory, recentVolatility),
\* with (inventory2, recentVolatility) and with (inventory, recentVolatility2), the
\* price and the pool volume being the same in the three
InitSpread ==
  /\ InitOthers
  /\ InitAux
  /\ InitTickCall
  /\ InitLadder
  /\ \E inv \in SpreadInventories, inv2 \in SpreadInventories, price \in SpreadPrices,
        recentVolatility \in SpreadVolatilities, recentVolatility2 \in SpreadVolatilities,
        poolVolume24h \in SpreadVolumes :
        spreadCall = noSpreadCall(inv, inv2, price, recentVolatility, recentVolatility2,
                                  poolVolume24h)

\* spreadCalc.calculateSpread({inventory, currentPrice, recentVolatility, poolVolume24h})
CalculateSpread ==
  /\ ~spreadCall.done
  /\ spreadCall' = [spreadCall EXCEPT
        !.done = TRUE,
        !.spreadBPS = calculateSpread(spreadCall.inventory, spreadCall.currentPrice,
                         spreadCall.recentVolatility, spreadCall.poolVolume24h).spreadBPS,
        !.spreadBPS2 = calculateSpread(spreadCall.inventory2, spreadCall.currentPrice,
                         spreadCall.recentVolatility, spreadCall.poolVolume24h).spreadBPS,
        !.spreadBPS3 = calculateSpread(spreadCall.inventory, spreadCall.currentPrice,
                         spreadCall.recentVolatility2, spreadCall.poolVolume24h).spreadBPS]
  /\ UNCHANGED <<ladder, mmVars, vbVars, botVars, orchVars, tickVars, auxVars>>

\* spreadCalc.getQuotes({currentPrice, spread, inventory}) with the spread of the first call
GetQuotes ==
  LET spread == calculateSpread(spreadCall.inventory, spreadCall.currentPrice,
                                spreadCall.recentVolatility, spreadCall.poolVolume24h)
      halves == quoteSpreads(spreadCall.currentPrice, spread, spreadCall.inventory)
      quotes == getQuotes(spreadCall.currentPrice, spread, spreadCall.inventory)
  IN  /\ spreadCall.done
      /\ ~spreadCall.quotesDone
      /\ spreadCall' = [spreadCall EXCEPT
            !.quotesDone = TRUE,
            !.bidSpread = halves.bidSpread, !.askSpread = halves.askSpread,
            !.bid = quotes.bid, !.ask = quotes.ask, !.mid = quotes.mid]
      /\ UNCHANGED <<ladder, mmVars, vbVars, botVars, orchVars, tickVars, auxVars>>

SpreadNext ==
  \/ CalculateSpread
  \/ GetQuotes

SpecSpread == InitSpread /\ [][SpreadNext]_vars

-----------------------------------------------------------------------------
(* VolumeBot (ladder): placeLadderOrders and checkFillsAndReverse in the     *)
(* first tick of a started bot                                               *)

\* variant: every level of a side is placed at the first level's price
placeLadderOrdersFlat(bot) ==
  LET btcPerOrder   == bot.inventory.btc \div bot.levels
      tokenPerOrder == bot.inventory.token \div bot.levels
      bids == [k \in 1..bot.levels |->
                 vbBid((bot.price * (RatioScale - 250)) \div RatioScale, btcPerOrder)]
      asks == [k \in 1..bot.levels |->
                 vbAsk((bot.price * (RatioScale + 250)) \div RatioScale, tokenPerOrder)]
  IN  [bot EXCEPT !.positions = bot.positions \o bids \o asks]

\* placeLadderOrders(target): ladderLevels bids from -2.5% down by 1% a level, each of
\* inventory.btc / ladderLevels, then as many asks from +2.5% up, each of
\* inventory.token / ladderLevels
placeLadderOrders(bot) ==
  LET btcPerOrder   == bot.inventory.btc \div bot.levels
      tokenPerOrder == bot.inventory.token \div bot.levels
      bids == [k \in 1..bot.levels |->
                 vbBid((bot.price * (RatioScale - 250 - (k - 1) * 100)) \div RatioScale,
                       btcPerOrder)]
      asks == [k \in 1..bot.levels |->
                 vbAsk((bot.price * (RatioScale + 250 + (k - 1) * 100)) \div RatioScale,
                       tokenPerOrder)]
  IN  [bot EXCEPT !.positions = bot.positions \o bids \o asks]

\* detectFills(): the open positions the random draws select become filled
detectFills(bot, filledSet) ==
  [bot EXCEPT !.positions = [i \in DOMAIN bot.positions |->
      IF i \in filledSet /\ bot.positions[i].status = "open"
      THEN [bot.positions[i] EXCEPT !.status = "filled"]
      ELSE bot.positions[i]]]

\* the fills detectFills returns, as indices into positions, in the order of positions
RECURSIVE detectedFills(_, _, _)
detectedFills(bot, filledSet, i) ==
  IF i > Len(bot.positions) THEN << >>
  ELSE (IF i \in filledSet /\ bot.positions[i].status = "open" THEN <<i>> ELSE << >>)
          \o detectedFills(bot, filledSet, i + 1)

\* marketSell(tokenAmount) at marketData.price
marketSell(bot, tokenAmount) ==
  LET btcReceived == (tokenAmount * bot.price) \div PriceScale
  IN  [bot EXCEPT !.inventory.token = @ - tokenAmount,
                  !.inventory.btc = @ + btcReceived,
                  !.reverseTrades = @ + 1,
                  !.reverseVolume = @ + btcReceived]

\* marketBuy(btcAmount) at marketData.price
marketBuy(bot, btcAmount) ==
  LET tokenReceived == (btcAmount * PriceScale) \div bot.price
  IN  [bot EXCEPT !.inventory.btc = @ - btcAmount,
                  !.inventory.token = @ + tokenReceived,
                  !.reverseTrades = @ + 1,
                  !.reverseVolume = @ + btcAmount]

\* variant: with ping-pong enabled the volume is doubled and the reverse trade only logged
reverseFillLoggedOnly(bot, fill) ==
  LET traded == IF fill.side = "bid"
                THEN [bot EXCEPT !.inventory.btc = @ - fill.sizeBTC,
                                 !.inventory.token = @ + fill.sizeToken]
                ELSE [bot EXCEPT !.inventory.btc = @ + fill.sizeBTC,
                                 !.inventory.token = @ - fill.sizeToken]
      volume == IF bot.pingPongEnabled THEN 2 * fill.sizeBTC ELSE fill.sizeBTC
  IN  [traded EXCEPT !.metrics.volumeGenerated = @ + volume,
                     !.metrics.volumeGenerated24h = @ + volume,
                     !.metrics.trades = @ + 1,
                     !.metrics.tradingFeesPaid = @ + fill.sizeBTC * radfiFeeRateBP]

\* const reverseRatio = this.tokenConfig.reverseTradeRatio || 0.5: a ratio of 0 is falsy
reverseRatio(bot) ==
  IF bot.reverseTradeRatio = 0 THEN defaultReverseRatioBP ELSE bot.reverseTradeRatio

\* the body of the loop of checkFillsAndReverse for one fill; fill.value is sizeBTC
reverseFill(bot, fill) ==
  LET traded == IF fill.side = "bid"
                THEN [bot EXCEPT !.inventory.btc = @ - fill.sizeBTC,
                                 !.inventory.token = @ + fill.sizeToken]
                ELSE [bot EXCEPT !.inventory.btc = @ + fill.sizeBTC,
                                 !.inventory.token = @ - fill.sizeToken]
      reversed == IF ~bot.pingPongEnabled THEN traded
                  ELSE IF fill.side = "bid"
                  THEN marketSell(traded, (fill.sizeToken * reverseRatio(bot)) \div RatioScale)
                  ELSE marketBuy(traded, (fill.sizeBTC * reverseRatio(bot)) \div RatioScale)
      volume == IF bot.pingPongEnabled THEN 2 * fill.sizeBTC ELSE fill.sizeBTC
  IN  [reversed EXCEPT !.metrics.volumeGenerated = @ + volume,
                       !.metrics.volumeGenerated24h = @ + volume,
                       !.metrics.trades = @ + 1,
                       !.metrics.tradingFeesPaid = @ + fill.sizeBTC * radfiFeeRateBP]

\* for (const fill of fills) { ... }
RECURSIVE reverseFills(_, _)
reverseFills(bot, fills) ==
  IF fills = << >> THEN bot
  ELSE reverseFills(reverseFill(bot, bot.positions[Head(fills)]), Tail(fills))

\* checkFillsAndReverse(): detectFills, then the loop over its fills
checkFillsAndReverse(bot, filledSet) ==
  reverseFills(detectFills(bot, filledSet), detectedFills(bot, filledSet, 1))

RECURSIVE SumSeq(_)
SumSeq(seq) == IF seq = << >> THEN 0 ELSE Head(seq) + SumSeq(Tail(seq))

\* volumeUSD of a swap, in cents: parseFloat(token0Amount) / 1e8 * 78600
volumeUSD(token0Amount) == (token0Amount * (btcPriceUSD \div 100)) \div 10000

\* the loop of the pool-swap checkFillsAndReverse over newSwaps (their token0Amount in
\* satoshi): the volume of each swap is counted once and the trade tracked; the ping-pong
\* reverse trade is only logged
RECURSIVE checkPoolSwaps(_, _)
checkPoolSwaps(bot, newSwaps) ==
  IF newSwaps = << >> THEN bot
  ELSE checkPoolSwaps([bot EXCEPT !.metrics.volumeGenerated = @ + volumeUSD(Head(newSwaps)),
                                  !.metrics.volumeGenerated24h = @ + volumeUSD(Head(newSwaps)),
                                  !.metrics.trades = @ + 1],
                      Tail(newSwaps))

\* token0Amount of the swaps getPoolSwaps reports, and the lists newSwaps can be
SwapAmounts == {100000, 250000}
NewSwaps == UNION {[1..n -> SwapAmounts] : n \in 0..MaxFills}

\* inventories the bot starts its tick with, market prices, ladderLevels
LadderBtc == {5000, 10000}
LadderTokens == {5000, 10000}
LadderPrices == {PriceScale \div 2, PriceScale}
LadderLevelChoices == {1, 2, 5}
LadderRatios == {0, reverseTradeRatioBP \div 2, reverseTradeRatioBP, RatioScale}

\* the sets of positions the random draws of detectFills can select, MaxFills at most
FilledSets == {f \in SUBSET (1..10) : Cardinality(f) <= MaxFills}

\* a started bot is about to run its first tick: positions is empty and
\* cancelAllPositions has nothing to cancel
InitLadderTick ==
  /\ InitOthers
  /\ InitAux
  /\ InitTickCall
  /\ InitSpreadCall
  /\ \E btc \in LadderBtc, token \in LadderTokens, price \in LadderPrices,
        levels \in LadderLevelChoices, pingPongEnabled \in BOOLEAN,
        reverseTradeRatio \in LadderRatios :
        ladder = ladderTick(ladderBot(btc, token, price, levels, pingPongEnabled,
                                      reverseTradeRatio))

\* step 6 of tick(): await this.placeLadderOrders(target)
PlaceLadderOrders ==
  /\ ~ladder.placed
  /\ ladder' = [ladder EXCEPT !.placed = TRUE, !.bot = placeLadderOrders(ladder.bot)]
  /\ UNCHANGED <<spreadCall, mmVars, vbVars, botVars, orchVars, tickVars, auxVars>>

\* step 7 of tick(): await this.checkFillsAndReverse()
CheckFillsAndReverse(filledSet) ==
  /\ ladder.placed
  /\ ~ladder.checked
  /\ filledSet \subseteq DOMAIN ladder.bot.positions
  /\ ladder' = [ladder EXCEPT
        !.checked = TRUE,
        !.before = ladder.bot.inventory,
        !.fills = detectedFills(ladder.bot, filledSet, 1),
        !.bot = checkFillsAndReverse(ladder.bot, filledSet)]
  /\ UNCHANGED <<spreadCall, mmVars, vbVars, botVars, orchVars, tickVars, auxVars>>

\* the tick of the bot that watches the pool's swaps: await this.checkFillsAndReverse()
CheckPoolSwaps(newSwaps) ==
  /\ ladder.placed
  /\ ~ladder.checked
  /\ ladder' = [ladder EXCEPT
        !.checked = TRUE,
        !.before = ladder.bot.inventory,
        !.swapValue = SumSeq([k \in DOMAIN newSwaps |-> volumeUSD(newSwaps[k])]),
        !.bot = checkPoolSwaps(ladder.bot, newSwaps)]
  /\ UNCHANGED <<spreadCall, mmVars, vbVars, botVars, orchVars, tickVars, auxVars>>

LadderNext ==
  \/ PlaceLadderOrders
  \/ \E filledSet \in FilledSets : CheckFillsAndReverse(filledSet)
  \/ \E newSwaps \in NewSwaps : CheckPoolSwaps(newSwaps)

SpecLadder == InitLadderTick /\ [][LadderNext]_vars

-----------------------------------------------------------------------------
(* UserPositionManager: createPosition, getUserPosition, stopPosition over  *)
(* one user with one market maker                                            *)

\* what getUserPosition aggregates from the market makers of activeMarketMakers: the
\* inventory valued at tokenConfig.price, and mm.pnl
mmTotals ==
  [currentValueBTC |-> getTotalValueBTC(inventory, InitPrice),
   realizedPnL |-> pnl.realized, unrealizedPnL |-> pnl.unrealized, totalTrades |-> pnl.trades]

\* the totals of an empty list of market makers
noTotals == [currentValueBTC |-> 0, realizedPnL |-> 0, unrealizedPnL |-> 0, totalTrades |-> 0]

\* createPosition: the position record, then startMarketMaker, whose mm.run() sets
\* running and waits for fetchPool, then activeMarketMakers.set
CreatePosition ==
  /\ pc = "idle"
  /\ userPosition.status = "none"
  /\ userPosition' = [status |-> "active", currentValueBTC |-> initialCapital,
                      realizedPnL |-> 0, unrealizedPnL |-> 0, totalTrades |-> 0]
  /\ registered' = TRUE
  /\ running' = TRUE
  /\ pc' = "fetch"
  /\ createError' = "none"
  /\ UNCHANGED <<positions, active, inventory, pnl, currentPrice, poolVolume, cycle,
                 stopLossAt, lastCall, lastError, atStop, vbVars, botVars, tickVars, fnVars,
                 notCreateError>>

\* the deposits and token lists of the createPosition calls that fail: minDeposit is the
\* minimum at the scale of initialCapital, "XXX" a ticker TOKENS does not hold
minDeposit == initialCapital
FailingDeposits == {minDeposit - orderSizeBTC, minDeposit, 2 * minDeposit}
FailingTokens == {<<"RAD">>, <<"XXX">>, <<"RAD", "XXX">>}

\* createPosition that throws. Below the minimum deposit it throws before anything is
\* written. Otherwise the position is set in userPositions and saved to disk, and the
\* market makers are started token by token: startMarketMaker of a known token creates
\* the market maker on its share of the deposit and calls mm.run(), which sets running
\* and waits for fetchPool; startMarketMaker of the unknown token throws, and
\* activeMarketMakers.set is not reached
CreatePositionFails(depositBTC, tokens) ==
  /\ pc = "idle"
  /\ userPosition.status = "none"
  /\ depositBTC < minDeposit \/ \E k \in DOMAIN tokens : tokens[k] # "RAD"
  /\ IF depositBTC < minDeposit
     THEN /\ createError' = "MinimumDeposit"
          /\ UNCHANGED <<userPosition, running, pc, inventory>>
     ELSE /\ createError' = "UnknownToken"
          /\ userPosition' = [status |-> "active", currentValueBTC |-> depositBTC,
                              realizedPnL |-> 0, unrealizedPnL |-> 0, totalTrades |-> 0]
          /\ IF tokens[1] = "RAD"
             THEN /\ inventory' = initInventory(depositBTC \div Len(tokens), InitPrice)
                  /\ running' = TRUE
                  /\ pc' = "fetch"
             ELSE UNCHANGED <<running, pc, inventory>>
  /\ UNCHANGED <<positions, active, pnl, currentPrice, poolVolume, cycle, stopLossAt,
                 lastCall, lastError, registered, atStop, vbVars, botVars, tickVars, fnVars,
                 notCreateError>>

\* getUserPosition, called while the loop sleeps or after it has ended: the totals over
\* activeMarketMakers.get(user) || [] are written into the position and returned
GetUserPosition ==
  LET totals == IF registered THEN mmTotals ELSE noTotals
  IN  /\ pc \in {"sleep", "errSleep", "done"}
      /\ userPosition.status # "none"
      /\ userPosition' = [userPosition EXCEPT
                             !.currentValueBTC = totals.currentValueBTC,
                             !.realizedPnL = totals.realizedPnL,
                             !.unrealizedPnL = totals.unrealizedPnL,
                             !.totalTrades = totals.totalTrades]
      /\ atStop' = [atStop EXCEPT !.queried = atStop.stopped]
      /\ UNCHANGED <<registered, mmVars, vbVars, botVars, tickVars, fnVars, auxVars>>

\* stopPosition, called while the loop sleeps, after it has ended or when none was
\* started: mm.shutdown() for each market maker of activeMarketMakers.get(user) || [], activeMarketMakers.delete(user), position.status = 'stopped'
StopPosition ==
  LET totals == IF registered THEN mmTotals ELSE noTotals
  IN
  /\ pc \in {"sleep", "errSleep", "done", "idle"}
  /\ userPosition.status = "active"
  /\ IF registered
     THEN /\ running' = FALSE
          /\ active' = << >>
          /\ lastCall' = [op |-> "shutdown", price |-> 0, id |-> 0]
     ELSE UNCHANGED <<running, active, lastCall>>
  /\ registered' = FALSE
  /\ userPosition' = [userPosition EXCEPT !.status = "stopped"]
  /\ atStop' = [stopped |-> TRUE, queried |-> FALSE,
                currentValueBTC |-> totals.currentValueBTC,
                realizedPnL |-> totals.realizedPnL,
                unrealizedPnL |-> totals.unrealizedPnL,
                totalTrades |-> totals.totalTrades]
  /\ UNCHANGED <<positions, inventory, pnl, pc, currentPrice, poolVolume, cycle,
                 stopLossAt, lastError, vbVars, botVars, tickVars, fnVars, auxVars>>

OrchNext ==
  \/ CreatePosition
  \/ \E depositBTC \in FailingDeposits, tokens \in FailingTokens :
        CreatePositionFails(depositBTC, tokens)
  \/ \E price \in PoolPrices, volume24h \in PoolVolumes : FetchPool(price, volume24h)
  \/ FetchPoolFails
  \/ LoopExit
  \/ CheckFillsStep
  \/ RebalanceStep
  \/ CancelStep
  \/ PlaceBid
  \/ PlaceAsk
  \/ RiskStep
  \/ Wake
  \/ GetUserPosition
  \/ StopPosition

SpecOrch == Init /\ [][OrchNext]_vars

----------------------------------------------------------------------------
(* VolumeBot (start, stop, tick) under the server's deposit, pause, resume  *)
(* and withdraw handlers, for one (user, ticker) pair. A tick is suspended  *)
(* at each awaited external call; the interval timer fires regardless.      *)

\* new VolumeBot(userAddress, tokenConfig, allocation, ...): inventory {btc: allocation / 2,
\* token: 0}, positions [], running = false, paused = false, timer = null.
\* stopReturned records that a stop() call on the bot has returned.
newBot(allocation) ==
  [running |-> FALSE, paused |-> FALSE, timer |-> FALSE, ticks |-> << >>,
   allocation |-> allocation,
   inventory |-> [btc |-> allocation \div 2, token |-> 0],
   positions |-> 0, stopReturned |-> FALSE]

\* the inventory start() computes from the allocation and the price getTokenPrice returned
startInventory(allocation, price) ==
  LET btcForTokens == (allocation * targetTokenRatioBP) \div RatioScale
  IN  [btc |-> allocation - btcForTokens, token |-> (btcForTokens * PriceScale) \div price]

\* start() when every awaited call succeeds; deployed is the number of positions
\* deployLiquidity pushed (none in test mode or when the API returns no nftId)
start(bot, price, deployed) ==
  IF bot.running THEN bot
  ELSE [bot EXCEPT !.running = TRUE, !.timer = TRUE,
                   !.inventory = startInventory(bot.allocation, price),
                   !.positions = @ + deployed]

\* start() when loadPoolData or getTokenPrice throws: the catch block
startFails(bot) ==
  IF bot.running THEN bot
  ELSE [bot EXCEPT !.running = FALSE]

\* stop(): running = false; clearInterval(timer); timer = null; saveState()
stop(bot) == [bot EXCEPT !.running = FALSE, !.timer = FALSE, !.stopReturned = TRUE]

\* the state saveState() writes to data/mm/<user>_<ticker>.json
saveState(bot) ==
  [exists |-> TRUE, allocation |-> bot.allocation, inventory |-> bot.inventory,
   positions |-> bot.positions]

\* no file
noState == [exists |-> FALSE, allocation |-> 0, inventory |-> [btc |-> 0, token |-> 0],
            positions |-> 0]

\* loadState(): inventory, metrics, positions, startPrice, currentPrice are restored
loadState(bot, file) ==
  [bot EXCEPT !.inventory = file.inventory, !.positions = file.positions]

RemoveAt(seq, i) == [j \in 1..(Len(seq) - 1) |-> IF j < i THEN seq[j] ELSE seq[j + 1]]

\* POST /api/volume-bot/deposit: a new bot for the allocation, started, then registered
Deposit(allocation, price, deployed) ==
  LET bot == start(newBot(allocation), price, deployed)
  IN  /\ Len(bots) < MaxBots
      /\ bots' = Append(bots, bot)
      /\ activeBots' = Len(bots) + 1
      /\ stateFile' = saveState(bot)
      /\ UNCHANGED <<lastPaused, mmVars, vbVars, orchVars, tickVars, fnVars, auxVars>>

\* deposit whose bot.start() throws: the handler answers 500, the bot is not registered
DepositStartFails(allocation) ==
  /\ Len(bots) < MaxBots
  /\ bots' = Append(bots, startFails(newBot(allocation)))
  /\ UNCHANGED <<activeBots, stateFile, lastPaused, mmVars, vbVars, orchVars, tickVars, fnVars, auxVars>>

\* POST /api/volume-bot/pause: stop the registered bot and drop it from the registry
Pause ==
  /\ IF activeBots # 0
     THEN /\ bots' = [bots EXCEPT ![activeBots] = stop(@)]
          /\ activeBots' = 0
          /\ stateFile' = saveState(stop(bots[activeBots]))
          /\ lastPaused' = saveState(stop(bots[activeBots]))
     ELSE UNCHANGED <<bots, activeBots, stateFile, lastPaused>>
  /\ UNCHANGED <<mmVars, vbVars, orchVars, tickVars, fnVars, auxVars>>

\* POST /api/volume-bot/resume: new VolumeBot(userAddress, tokenConfig, 0), loadState, and
\* if a state was loaded start it and register it
Resume(price, deployed) ==
  /\ Len(bots) < MaxBots
  /\ IF stateFile.exists
     THEN LET bot == start(loadState(newBot(0), stateFile), price, deployed)
          IN  /\ bots' = Append(bots, bot)
              /\ activeBots' = Len(bots) + 1
              /\ stateFile' = saveState(bot)
     ELSE /\ bots' = Append(bots, newBot(0))
          /\ UNCHANGED <<activeBots, stateFile>>
  /\ UNCHANGED <<lastPaused, mmVars, vbVars, orchVars, tickVars, fnVars, auxVars>>

\* POST /api/volume-bot/withdraw: stop every registered bot of the user, drop the user
Withdraw ==
  /\ IF activeBots # 0
     THEN /\ bots' = [bots EXCEPT ![activeBots] = stop(@)]
          /\ stateFile' = saveState(stop(bots[activeBots]))
     ELSE UNCHANGED <<bots, stateFile>>
  /\ activeBots' = 0
  /\ UNCHANGED <<lastPaused, mmVars, vbVars, orchVars, tickVars, fnVars, auxVars>>

\* the interval timer calls tick(): if (!running || paused) return; else the tick runs up
\* to its first await, api.getTokenPrice
TimerFires(b) ==
  /\ b \in DOMAIN bots
  /\ bots[b].timer
  /\ Len(bots[b].ticks) < MaxTicks
  /\ bots' = IF ~bots[b].running \/ bots[b].paused THEN bots
             ELSE [bots EXCEPT ![b].ticks = Append(@, "updateMarketData")]
  /\ UNCHANGED <<activeBots, stateFile, lastPaused, mmVars, vbVars, orchVars, tickVars, fnVars, auxVars>>

\* getTokenPrice returns: the tick goes on to checkFillsAndReverse and awaits getPoolSwaps
TickMarket(b, i) ==
  /\ b \in DOMAIN bots
  /\ i \in DOMAIN bots[b].ticks
  /\ bots[b].ticks[i] = "updateMarketData"
  /\ bots' = [bots EXCEPT ![b].ticks[i] = "checkFillsAndReverse"]
  /\ UNCHANGED <<activeBots, stateFile, lastPaused, mmVars, vbVars, orchVars, tickVars, fnVars, auxVars>>

\* getTokenPrice throws: tick's catch block ends the tick
TickFails(b, i) ==
  /\ b \in DOMAIN bots
  /\ i \in DOMAIN bots[b].ticks
  /\ bots[b].ticks[i] = "updateMarketData"
  /\ bots' = [bots EXCEPT ![b].ticks = RemoveAt(@, i)]
  /\ UNCHANGED <<activeBots, stateFile, lastPaused, mmVars, vbVars, orchVars, tickVars, fnVars, auxVars>>

\* getPoolSwaps returns or throws: checkAndRebalance, checkVolumeReset, calculatePnL run,
\* then the tick awaits the file write of saveState
TickSwaps(b, i) ==
  /\ b \in DOMAIN bots
  /\ i \in DOMAIN bots[b].ticks
  /\ bots[b].ticks[i] = "checkFillsAndReverse"
  /\ bots' = [bots EXCEPT ![b].ticks[i] = "saveState"]
  /\ UNCHANGED <<activeBots, stateFile, lastPaused, mmVars, vbVars, orchVars, tickVars, fnVars, auxVars>>

\* the file write of saveState completes: the tick is over
TickSave(b, i) ==
  /\ b \in DOMAIN bots
  /\ i \in DOMAIN bots[b].ticks
  /\ bots[b].ticks[i] = "saveState"
  /\ bots' = [bots EXCEPT ![b].ticks = RemoveAt(@, i)]
  /\ stateFile' = saveState(bots[b])
  /\ UNCHANGED <<activeBots, lastPaused, mmVars, vbVars, orchVars, tickVars, fnVars, auxVars>>

BotNext ==
  \/ \E allocation \in Allocations, price \in BotPrices, deployed \in {0, 1} :
        Deposit(allocation, price, deployed)
  \/ \E allocation \in Allocations : DepositStartFails(allocation)
  \/ Pause
  \/ \E price \in BotPrices, deployed \in {0, 1} : Resume(price, deployed)
  \/ Withdraw
  \/ \E b \in 1..MaxBots : TimerFires(b)
  \/ \E b \in 1..MaxBots, i \in 1..MaxTicks : TickMarket(b, i)
  \/ \E b \in 1..MaxBots, i \in 1..MaxTicks : TickFails(b, i)
  \/ \E b \in 1..MaxBots, i \in 1..MaxTicks : TickSwaps(b, i)
  \/ \E b \in 1..MaxBots, i \in 1..MaxTicks : TickSave(b, i)

SpecBot == Init /\ [][BotNext]_vars

----------------------------------------------------------------------------
(* Properties of the bots under the server's handlers                      *)

\* C11: when a stop() call on a bot has returned, the bot holds no position
C11_StoppedBotHoldsNoOrder ==
  \A b \in DOMAIN bots : bots[b].stopReturned => bots[b].positions = 0

\* C9: no two ticks of the same bot instance overlap: while a tick of a bot is suspended
\* at an awaited external call, no other tick of that bot is in progress.
C9_NoOverlappingTicks ==
  \A b \in DOMAIN bots : Len(bots[b].ticks) <= 1

\* the bots whose loop is live: running, with an interval timer set
LiveBots == {b \in DOMAIN bots : bots[b].running /\ bots[b].timer}

\* C10: after any sequence of deposit, pause, resume and withdraw requests, at most one
\* running loop instance exists for the (user, ticker) pair.
C10_OneLiveBotPerPair ==
  Cardinality(LiveBots) <= 1

----------------------------------------------------------------------------
(* Properties of the MarketMaker.run loop                                  *)

\* the steps of a cycle that come after the fill detection and its application
AfterFills == {"rebalance", "cancel", "placeBid", "placeAsk", "risk", "sleep"}

\* C2: once the fill detection of a cycle has run, a bid order whose range the pool price
\* entered in an earlier cycle (status filling) and whose upper price the cycle's price is
\* above is marked filled and has been applied to the inventory and to the PnL.
C2_CrossedBidFilledAndApplied ==
  pc \in AfterFills =>
    \A id \in DOMAIN positions :
       (/\ positions[id].side = "bid"
        /\ positions[id].status \in {"filling", "filled"}
        /\ currentPrice > positionUpperPrice(positions[id])) =>
          /\ positions[id].status = "filled"
          /\ positions[id].applied = 1
          /\ pnl.trades >= 1
          /\ Len(inventory.trades) >= 1

C8_StopLossIsTerminal ==
  stopLossAt # 0 =>
    /\ ~running
    /\ active = << >>
    /\ pc = "done"
    /\ Len(positions) + 1 = stopLossAt

\* C8 witness: the stop loss was triggered in a cycle after the first one
C8_StoppedByStopLoss ==
  /\ stopLossAt # 0
  /\ stopLossAt > 3
  /\ pc = "done"
  /\ lastCall.op = "shutdown"

----------------------------------------------------------------------------
(* Properties of the components driven call by call                        *)

LegalEdges ==
  {<<"open", "filling">>, <<"filling", "filled">>,
   <<"open", "cancelled">>, <<"filling", "cancelled">>}

\* C3: over any sequence of fill checks and cancellations an order's status changes only
\* along open -> filling, filling -> filled, open -> cancelled, filling -> cancelled; a
\* filled order keeps its status and no order goes back from filling to open. The orders
\* are those of PositionManager under FillMonitor.checkFills and those of VolumeBot under
\* detectFills and cancelAllPositions.
C3_StatusEdges ==
  [][/\ \A id \in DOMAIN positions :
          \/ positions'[id].status = positions[id].status
          \/ <<positions[id].status, positions'[id].status>> \in LegalEdges
     /\ \A i \in DOMAIN vbObjects :
          \/ vbObjects'[i].status = vbObjects[i].status
          \/ <<vbObjects[i].status, vbObjects'[i].status>> \in LegalEdges]_vars

C5_AskFilledByRisingPrice ==
  [][\A id \in DOMAIN positions :
       (/\ positions[id].side = "ask"
        /\ positions[id].path = "entered"
        /\ positions'[id].path = "crossed") =>
          /\ positions'[id].status = "filled"
          /\ inventory'.btc > inventory.btc
          /\ inventory'.rad < inventory.rad]_vars

\* C6: applying a fill of the same order a second time is rejected with DuplicateFill and
\* leaves the BTC balance, the asset balance and the trade list unchanged.
C6_DuplicateFillRejected ==
  [][(lastCall'.op = "recordFill" /\ positions[lastCall'.id].applied >= 1) =>
        /\ lastError' = "DuplicateFill"
        /\ inventory'.btc = inventory.btc
        /\ inventory'.rad = inventory.rad
        /\ inventory'.trades = inventory.trades]_vars

\* the status cancelAll must leave on an order that had the given status
afterCancelAll(status) == IF status = "filled" THEN "filled" ELSE "cancelled"

\* C12: a call of cancelAllPositions (PositionManager's or VolumeBot's) leaves the active
\* set empty, gives every order of the active set that was not filled the status
\* cancelled, and leaves filled orders filled.
C12_CancelAllCancelsEveryOrder ==
  [][/\ CancelAllPositions =>
          /\ active' = << >>
          /\ \A id \in Range(active) :
                positions'[id].status = afterCancelAll(positions[id].status)
     /\ VbCancelAllPositions =>
          /\ vbPositions' = << >>
          /\ \A i \in Range(vbPositions) :
                vbObjects'[i].status = afterCancelAll(vbObjects[i].status)]_vars

\* the places of the active set that hold an order of the given side
activeOfSide(side) == {i \in DOMAIN active : positions[active[i]].side = side}

\* C13: in every state of MarketMaker.run, the states after a cycle that an exception
\* aborted included, the active set holds at most one bid and at most one ask; when a
\* cycle has completed (the loop has gone to its sleep of step 11) it holds exactly one
\* bid and one ask.
C13_OneBidOneAsk ==
  /\ Cardinality(activeOfSide("bid")) <= 1
  /\ Cardinality(activeOfSide("ask")) <= 1
  /\ lastCall.op = "sleep" =>
        /\ Cardinality(activeOfSide("bid")) = 1
        /\ Cardinality(activeOfSide("ask")) = 1

\* two cycles have completed and the next one was aborted by a failing fetchPool
C13_AbortedAfterCompletedCycles ==
  /\ pc = "errSleep"
  /\ Len(positions) >= 4
  /\ Len(active) = 2

\* C14: in a cycle of MarketMaker.run in which inventory.needsRebalance(currentPrice) is
\* true, step 3 executes a rebalance trade, that is the BTC and RAD balances have moved,
\* before the old orders are cancelled and the new quotes are placed.
C14_RebalanceTradeExecuted ==
  [][(RebalanceStep /\ needsRebalance(inventory, currentPrice, rebalanceThresholdBP))
        => inventory' # inventory]_vars

\* C15: right after MarketMaker.rebalance at price p, before any other step of the cycle,
\* the inventory is back at the target ratio: needsRebalance(p) is false.
C15_BalancedAfterRebalance ==
  lastCall.op \in {"rebalance", "rebalanceSwapLogged"}
     => ~needsRebalance(inventory, lastCall.price, rebalanceThresholdBP)

\* C16: when a tick of the ladder bot is abandoned because an external call failed, the
\* bot's order set after the tick is the set the previous cycle left.
C16_AbandonedCycleKeepsOrders ==
  [][(\E filledSet \in SUBSET (1..(MaxVbOrders + 2 * ladderLevels)) : VbTick(filledSet, TRUE))
        => vbPositions' = vbPositions]_vars

\* C17: an exception inside a cycle of MarketMaker.run does not end the loop: the
\* instance is still running after the catch block has taken it, and unless it is stopped
\* the loop comes back to its head and begins a later cycle.
C17_FailureKeepsLoopAlive ==
  /\ [][FetchPoolFails => (running' /\ pc' = "errSleep")]_vars
  /\ (pc = "errSleep" /\ running) ~> (pc = "fetch" \/ ~running)

\* a cycle is in progress after an earlier one failed
C17_CycleAfterFailure ==
  /\ lastError = "fetchPool failed"
  /\ running
  /\ pc = "fills"

\* C18: once stopPosition has shut the user's market maker down, a status query reports
\* the inventory value, the realized and unrealized PnL and the trade count the market
\* maker had when it was stopped.
C18_StoppedPositionFrozen ==
  (atStop.stopped /\ atStop.queried) =>
     /\ userPosition.currentValueBTC = atStop.currentValueBTC
     /\ userPosition.realizedPnL = atStop.realizedPnL
     /\ userPosition.unrealizedPnL = atStop.unrealizedPnL
     /\ userPosition.totalTrades = atStop.totalTrades

\* C19: when the bot of a pair has been paused and the pair is then resumed from the
\* state the pause persisted, the bot the resume request creates is running and its
\* allocation and its BTC and token balances are the persisted ones.
C19_ResumeRestoresPausedState ==
  [][\A price \in BotPrices, deployed \in {0, 1} :
        (Resume(price, deployed) /\ lastPaused.exists /\ stateFile = lastPaused) =>
           LET bot == bots'[Len(bots')]
           IN  /\ bot.running
               /\ bot.allocation = lastPaused.allocation
               /\ bot.inventory = lastPaused.inventory]_vars

\* C20: for a tick t within [MIN_TICK, MAX_TICK] and a spacing s > 0, the result of
\* nearestUsableTick(t, s) is a multiple of s, lies within [MIN_TICK, MAX_TICK], and no
\* multiple of s is strictly closer to t than it.
C20_NearestUsableTick ==
  tickCall.done =>
     LET t == tickCall.tick
         s == tickCall.tickSpacing
         r == tickCall.result
     IN  /\ r % s = 0
         /\ MIN_TICK <= r /\ r <= MAX_TICK
         /\ \A k \in ((t \div s) - 1)..((t \div s) + 2) : Abs(k * s - t) >= Abs(r - t)

\* C21: for a target price whose tick lies within [MIN_TICK, MAX_TICK], limitOrderRange
\* returns lowerTick < upperTick, exactly one tick spacing apart, both multiples of the
\* spacing.
C21_LimitOrderRangeOneSpacingWide ==
  tickCall.rangeDone =>
     /\ tickCall.lowerTick < tickCall.upperTick
     /\ tickCall.upperTick - tickCall.lowerTick = tickCall.tickSpacing
     /\ tickCall.lowerTick % tickCall.tickSpacing = 0
     /\ tickCall.upperTick % tickCall.tickSpacing = 0

\* C22: creating an order with size <= 0 (createLimitOrder of PositionManager, placeBid
\* and placeAsk of VolumeBot) fails with an InvalidSize error and adds nothing to the
\* active order set.
C22_InvalidSizeRejected ==
  [][/\ \A side \in {"bid", "ask"}, price \in TargetPrices, sizeBTC \in OrderSizes :
          (sizeBTC <= 0 /\ CreateLimitOrder(side, price, sizeBTC))
             => (lastError' = "InvalidSize" /\ active' = active)
     /\ \A sizeBTC \in OrderSizes :
          (sizeBTC <= 0 /\ (VbPlaceBid(97500, sizeBTC) \/ VbPlaceAsk(102500, sizeBTC)))
             => vbPositions' = vbPositions]_vars

\* C23: whatever the inventory, the price, the volatility and the pool volume, the
\* spreadBPS calculateSpread returns lies within [minSpreadBPS, maxSpreadBPS].
C23_SpreadWithinBounds ==
  spreadCall.done =>
     /\ minSpreadBPS * SpreadScale <= spreadCall.spreadBPS
     /\ spreadCall.spreadBPS <= maxSpreadBPS * SpreadScale

\* the three adjustments apply and their product, 234 bps, is above maxSpreadBPS
C23_AllAdjustmentsClamped ==
  /\ spreadCall.done
  /\ Abs(getImbalance(spreadCall.inventory, spreadCall.currentPrice)) > skewThresholdBP
  /\ spreadCall.recentVolatility > volatilityThresholdBP
  /\ spreadCall.poolVolume24h < lowVolumeThreshold
  /\ spreadCall.spreadBPS = maxSpreadBPS * SpreadScale

\* C24: with the price and the pool volume the same, the spreadBPS of calculateSpread
\* does not decrease when the absolute imbalance of the inventory increases, nor when
\* recentVolatility increases.
C24_SpreadMonotone ==
  spreadCall.done =>
     /\ Abs(getImbalance(spreadCall.inventory, spreadCall.currentPrice))
           <= Abs(getImbalance(spreadCall.inventory2, spreadCall.currentPrice))
        => spreadCall.spreadBPS <= spreadCall.spreadBPS2
     /\ spreadCall.recentVolatility <= spreadCall.recentVolatility2
        => spreadCall.spreadBPS <= spreadCall.spreadBPS3

\* an inventory with too much RAD gets a wider spread than a balanced one, and a volatile
\* market a wider spread than a calm one
C24_WiderBySkewAndVolatility ==
  /\ spreadCall.done
  /\ getImbalance(spreadCall.inventory2, spreadCall.currentPrice) < -skewThresholdBP
  /\ Abs(getImbalance(spreadCall.inventory, spreadCall.currentPrice)) <= skewThresholdBP
  /\ spreadCall.spreadBPS < spreadCall.spreadBPS2
  /\ spreadCall.recentVolatility < spreadCall.recentVolatility2
  /\ spreadCall.spreadBPS < spreadCall.spreadBPS3

\* C25: in getQuotes, with h the symmetric half-spread (half the clamped spreadBPS): an
\* imbalance above 0.1 gives an ask half-spread of 0.8 h and a bid half-spread of 1.2 h,
\* an imbalance below -0.1 the mirror image, any other imbalance h and h; in the three
\* cases bid < mid < ask and the half-spreads sum to the clamped spreadBPS.
C25_QuotesSkewedByInventory ==
  spreadCall.quotesDone =>
     LET imbalance == getImbalance(spreadCall.inventory, spreadCall.currentPrice)
         h == spreadCall.spreadBPS \div 2
     IN  /\ imbalance > skewThresholdBP =>
               /\ 10 * spreadCall.askSpread = 8 * h
               /\ 10 * spreadCall.bidSpread = 12 * h
         /\ imbalance < -skewThresholdBP =>
               /\ 10 * spreadCall.bidSpread = 8 * h
               /\ 10 * spreadCall.askSpread = 12 * h
         /\ Abs(imbalance) <= skewThresholdBP =>
               /\ spreadCall.bidSpread = h
               /\ spreadCall.askSpread = h
         /\ spreadCall.bid < spreadCall.mid
         /\ spreadCall.mid < spreadCall.ask
         /\ spreadCall.bidSpread + spreadCall.askSpread = spreadCall.spreadBPS

\* quotes for an inventory holding excess BTC
C25_QuotesWithExcessBTC ==
  /\ spreadCall.quotesDone
  /\ getImbalance(spreadCall.inventory, spreadCall.currentPrice) > skewThresholdBP
  /\ spreadCall.askSpread < spreadCall.bidSpread

\* the orders whose status a step moves to filled
becameFilled ==
  {id \in DOMAIN positions : positions[id].status # "filled" /\ positions'[id].status = "filled"}

\* C26: pnl.realized and pnl.trades change only in a step in which the fill detection
\* moved some order to filled, and pnl.trades then grows by the number of orders that
\* became filled; a step in which orders only became filling changes neither.
C26_PnlChangesOnlyOnFilled ==
  [][/\ pnl'.trades = pnl.trades + Cardinality(becameFilled)
     /\ becameFilled = {} => pnl'.realized = pnl.realized]_vars

\* one order has been filled and counted while another one is filling
C26_OneFilledOneFilling ==
  /\ pnl.trades = 1
  /\ \E id \in DOMAIN positions : positions[id].status = "filled" /\ positions[id].applied = 1
  /\ \E id \in DOMAIN positions : positions[id].status = "filling"

\* C27: right after placeLadderOrders with `levels` levels the bot's positions are
\* `levels` bids followed by `levels` asks; every bid price is below the market price and
\* every ask price above it; from one level to the next the bid price falls and the ask
\* price rises; the bid sizes add up to the BTC inventory and the ask sizes to the token
\* inventory.
C27_LadderPlaced ==
  (ladder.placed /\ ~ladder.checked) =>
     LET bot  == ladder.bot
         n    == bot.levels
         bids == {i \in DOMAIN bot.positions : bot.positions[i].side = "bid"}
         asks == {i \in DOMAIN bot.positions : bot.positions[i].side = "ask"}
     IN  /\ Len(bot.positions) = 2 * n
         /\ bids = 1..n
         /\ asks = (n + 1)..(2 * n)
         /\ \A i \in bids : bot.positions[i].price < bot.price
         /\ \A i \in asks : bot.positions[i].price > bot.price
         /\ \A i \in bids, j \in bids : i < j => bot.positions[i].price > bot.positions[j].price
         /\ \A i \in asks, j \in asks : i < j => bot.positions[i].price < bot.positions[j].price
         /\ SumSeq([i \in 1..n |-> bot.positions[i].sizeBTC]) = bot.inventory.btc
         /\ SumSeq([i \in 1..n |-> bot.positions[n + i].sizeToken]) = bot.inventory.token

\* a ladder of five levels has been placed
C27_FiveLevelsPlaced ==
  /\ ladder.placed
  /\ ~ladder.checked
  /\ ladder.bot.levels = 5
  /\ Len(ladder.bot.positions) = 10

\* the fill values (sizeBTC) of the fills of the checkFillsAndReverse call, added up
fillValues == SumSeq([k \in DOMAIN ladder.fills |-> ladder.bot.positions[ladder.fills[k]].sizeBTC])

\* C28: after checkFillsAndReverse (of the ladder bot or of the bot watching the pool's
\* swaps) the volume counters have grown by twice the fill values when a reverse trade
\* was executed for each fill, and by the fill values once when no reverse trade was
\* executed, ping-pong enabled or not.
C28_VolumeDoubledOnlyWhenReversed ==
  ladder.checked =>
     LET bot == ladder.bot
     IN  /\ bot.metrics.volumeGenerated = bot.metrics.volumeGenerated24h
         /\ \/ /\ bot.reverseTrades = Len(ladder.fills)
               /\ bot.reverseTrades > 0
               /\ bot.metrics.volumeGenerated = 2 * fillValues
            \/ /\ bot.reverseTrades = 0
               /\ bot.metrics.volumeGenerated = fillValues + ladder.swapValue

\* fills were reversed and their volume counted twice
C28_FillsReversed ==
  /\ ladder.checked
  /\ Len(ladder.fills) = 2
  /\ ladder.bot.reverseTrades = 2
  /\ ladder.bot.metrics.volumeGenerated = 2 * fillValues

\* C29: after checkFillsAndReverse tradingFeesPaid has grown by the fee of every fill plus
\* the fee of every reverse trade that was executed (fees in 1/10000 satoshi).
C29_ReverseTradeFeesCharged ==
  ladder.checked =>
     ladder.bot.metrics.tradingFeesPaid
        = fillValues * radfiFeeRateBP + ladder.bot.reverseVolume * radfiFeeRateBP

\* C30: with five levels and ping-pong enabled, one fill followed by its reverse trade
\* leaves the token inventory what it was before the fill and lowers the BTC inventory by
\* the fees of the fill and of the reverse trade.
C30_RoundTripCostsFeesOnly ==
  (/\ ladder.checked
   /\ ladder.bot.levels = 5
   /\ ladder.bot.pingPongEnabled
   /\ ladder.bot.reverseTradeRatio = reverseTradeRatioBP
   /\ Len(ladder.fills) = 1) =>
     /\ ladder.bot.inventory.token = ladder.before.token
     /\ ladder.bot.inventory.btc * RatioScale
          = ladder.before.btc * RatioScale
               - (fillValues * radfiFeeRateBP + ladder.bot.reverseVolume * radfiFeeRateBP)

\* C31: with ping-pong enabled and reverseTradeRatio r, one fill followed by its reverse
\* trade leaves the inventory the fill made, moved back by r times the filled size: after a
\* bid fill r * sizeToken tokens are sold at the market price, after an ask fill
\* r * sizeBTC is spent at the market price; with r = 0 the inventory is what the fill
\* alone left.
C31_ReverseTradeIsRatioOfFill ==
  (/\ ladder.checked
   /\ ladder.bot.pingPongEnabled
   /\ Len(ladder.fills) = 1) =>
     LET bot  == ladder.bot
         fill == bot.positions[ladder.fills[1]]
         r    == bot.reverseTradeRatio
         sold  == (fill.sizeToken * r) \div RatioScale
         spent == (fill.sizeBTC * r) \div RatioScale
     IN  IF fill.side = "bid"
         THEN /\ bot.inventory.token = ladder.before.token + fill.sizeToken - sold
              /\ bot.inventory.btc
                   = ladder.before.btc - fill.sizeBTC + (sold * bot.price) \div PriceScale
         ELSE /\ bot.inventory.btc = ladder.before.btc + fill.sizeBTC - spent
              /\ bot.inventory.token
                   = ladder.before.token - fill.sizeToken + (spent * PriceScale) \div bot.price

-----------------------------------------------------------------------------
(* BacktestRunner.run(): the fills the trade simulator reports are recorded  *)
(* on the market maker's InventoryTracker                                    *)

\* config.initialBTC, in orders of orderSizeBTC, and config.radPrice
BacktestCapitals == {2 * orderSizeBTC, 4 * orderSizeBTC}
\* the bid and the ask the fills are simulated at
BacktestFillPrices == {(99 * PriceScale) \div 100, (101 * PriceScale) \div 100}

\* new MarketMaker({ initialCapitalBTC }); await mm.init(radPrice)
InitBacktest ==
  /\ InitOthers
  /\ InitTickCall
  /\ InitSpreadCall
  /\ InitLadder
  /\ InitFeeCall
  /\ createError = "none"
  /\ InitVbStart
  /\ InitRebal
  /\ InitVt
  /\ \E initialBTC \in BacktestCapitals : tracker = initInventory(initialBTC, InitPrice)

\* if (fill.filled) mm.inventory.recordFill({ side, targetPrice, sizeBTC: orderSizeBTC }, fill.price)
BacktestFill(side, fillPrice) ==
  /\ Len(tracker.trades) < MaxBacktestFills
  /\ tracker' = recordFill(tracker, [side |-> side, targetPrice |-> fillPrice,
                                     sizeBTC |-> orderSizeBTC], fillPrice)
  /\ UNCHANGED <<mmVars, vbVars, botVars, orchVars, tickVars, fnVars, notTracker>>

BacktestNext ==
  \E side \in {"bid", "ask"}, fillPrice \in BacktestFillPrices : BacktestFill(side, fillPrice)

SpecBacktest == InitBacktest /\ [][BacktestNext]_vars

\* C32: after any sequence of recorded fills the BTC balance and the asset balance of the
\* inventory are not negative (a fill larger than the balance is blocked).
C32_InventoryNeverNegative ==
  /\ tracker.btc >= 0
  /\ tracker.rad >= 0

-----------------------------------------------------------------------------
(* server: the platform fee of POST /api/market-maker/calculate and of       *)
(* POST /api/volume-bot/withdraw                                             *)

\* Math.sqrt on integers: the largest x with x * x <= n
isqrt(n) == CHOOSE x \in 0..(2 * RatioScale) : x * x <= n /\ (x + 1) * (x + 1) > n

\* ilFactor = 2 * Math.sqrt(priceRatio) / (1 + priceRatio) - 1, in bps
ilFactorBP(entryPrice, price) ==
  LET priceRatio == (price * RatioScale) \div entryPrice
  IN  (2 * isqrt(priceRatio * RatioScale) * RatioScale) \div (RatioScale + priceRatio)
         - RatioScale

\* the handler of POST /api/market-maker/calculate; apy and priceChange, which only the
\* response carries, are left out
calculateFees(call) ==
  LET ilLoss == (ilFactorBP(call.entryPrice, call.currentPrice) * call.depositedBTC)
                   \div RatioScale
      currentValue == call.depositedBTC + call.feesEarned + ilLoss
      totalPnL == currentValue - call.depositedBTC
      profitableFees == Max(0, call.feesEarned)
  IN  [call EXCEPT !.done = TRUE, !.ilLoss = ilLoss, !.currentValue = currentValue,
                   !.totalPnL = totalPnL,
                   !.platformFee = (profitableFees * platformFeeBP) \div RatioScale,
                   !.userFees = (profitableFees * (RatioScale - platformFeeBP)) \div RatioScale]

\* the fee of POST /api/volume-bot/withdraw: metrics.currentValue is totalDeposited + netPnL
withdrawFees(call) ==
  LET platformFee == IF call.netPnL > 0 THEN (call.netPnL * platformFeeBP) \div RatioScale
                     ELSE 0
  IN  [call EXCEPT !.withdrawn = TRUE, !.withdrawFee = platformFee,
                   !.netWithdrawal = call.depositedBTC + call.netPnL - platformFee]

\* the requests: deposits, fees earned (a negative amount is what Math.max(0, .) is for),
\* the entry price and current prices at a quarter, once and four times it, and the netPnL of the metrics
FeeDeposits == {100 * orderSizeBTC, 200 * orderSizeBTC}
FeesEarned == {-orderSizeBTC, 0, orderSizeBTC, 30 * orderSizeBTC}
FeeEntryPrice == PriceScale \div 4
FeePrices == {FeeEntryPrice \div 4, FeeEntryPrice, 4 * FeeEntryPrice}
NetPnLs == {-10 * orderSizeBTC, 0, 10 * orderSizeBTC}

InitFees ==
  /\ InitOthers
  /\ InitTickCall
  /\ InitSpreadCall
  /\ InitLadder
  /\ InitTracker
  /\ createError = "none"
  /\ InitVbStart
  /\ InitRebal
  /\ InitVt
  /\ \E depositedBTC \in FeeDeposits, feesEarned \in FeesEarned, price \in FeePrices,
        netPnL \in NetPnLs :
        feeCall = noFeeCall(depositedBTC, feesEarned, FeeEntryPrice, price, netPnL)

\* app.post('/api/market-maker/calculate')
CalculateFees ==
  /\ ~feeCall.done
  /\ feeCall' = calculateFees(feeCall)
  /\ UNCHANGED <<mmVars, vbVars, botVars, orchVars, tickVars, fnVars, notFeeCall>>

\* app.post('/api/volume-bot/withdraw/:userAddress'), its fee computation
WithdrawFees ==
  /\ ~feeCall.withdrawn
  /\ feeCall' = withdrawFees(feeCall)
  /\ UNCHANGED <<mmVars, vbVars, botVars, orchVars, tickVars, fnVars, notFeeCall>>

FeesNext == CalculateFees \/ WithdrawFees

SpecFees == InitFees /\ [][FeesNext]_vars

\* C33: the platform fee computed for a position whose total PnL is not positive is zero
\* (in the calculate response and at withdrawal); when a fee is charged on fees it is 10%
\* of the profitable fees, and the user share plus the platform fee is the fees earned.
C33_NoFeeWhenUnprofitable ==
  /\ feeCall.done =>
        /\ feeCall.totalPnL <= 0 => feeCall.platformFee = 0
        /\ feeCall.platformFee > 0 =>
              /\ feeCall.platformFee * RatioScale = Max(0, feeCall.feesEarned) * platformFeeBP
              /\ feeCall.userFees + feeCall.platformFee = feeCall.feesEarned
  /\ feeCall.withdrawn =>
        (feeCall.netPnL <= 0 => feeCall.withdrawFee = 0)

\* C34: after a createPosition that failed (deposit below the minimum, or an unknown
\* token in the token list) no position is recorded for the user and no market-maker
\* loop that the call started is running.
C34_FailedCreateLeavesNothing ==
  createError # "none" =>
     /\ userPosition.status = "none"
     /\ ~running
     /\ pc = "idle"

-----------------------------------------------------------------------------
(* VolumeBot.start() and stop() on one instance, start() split at its awaits *)
(* A start() call c is at "none" (not made), "init" (past the running test,  *)
(* suspended at tracker.init / logInfo), "load" (running set, suspended at   *)
(* loadPoolData, getTokenPrice, deployLiquidity), "started" (setInterval     *)
(* done, suspended at logSuccess / saveState), "done" or "failed". The timer *)
(* setInterval returns is named by the call that set it.                     *)

\* start() is called: if (this.running) return; else on to await this.tracker.init()
StartCall(c) ==
  /\ vbStart.calls[c] = "none"
  /\ vbStart' = [vbStart EXCEPT !.calls[c] = IF vbStart.running THEN "done" ELSE "init"]
  /\ UNCHANGED <<mmVars, vbVars, botVars, orchVars, tickVars, fnVars, notVbStart>>

\* the awaits before the try block resume: this.running = true; await this.loadPoolData()
StartRunning(c) ==
  /\ vbStart.calls[c] = "init"
  /\ vbStart' = [vbStart EXCEPT !.running = TRUE, !.calls[c] = "load"]
  /\ UNCHANGED <<mmVars, vbVars, botVars, orchVars, tickVars, fnVars, notVbStart>>

\* the awaits of the try block resume: this.timer = setInterval(...); await logSuccess
StartSetInterval(c) ==
  /\ vbStart.calls[c] = "load"
  /\ vbStart' = [vbStart EXCEPT !.timer = c, !.liveTimers = @ \cup {c},
                                !.calls[c] = "started"]
  /\ UNCHANGED <<mmVars, vbVars, botVars, orchVars, tickVars, fnVars, notVbStart>>

\* loadPoolData, getTokenPrice or deployLiquidity throws: the catch block sets
\* running = false and rethrows (logSuccess and saveState catch their own errors)
StartFails(c) ==
  /\ vbStart.calls[c] = "load"
  /\ vbStart' = [vbStart EXCEPT !.running = FALSE, !.calls[c] = "failed"]
  /\ UNCHANGED <<mmVars, vbVars, botVars, orchVars, tickVars, fnVars, notVbStart>>

\* logSuccess and saveState resume: start() returns
StartReturns(c) ==
  /\ vbStart.calls[c] = "started"
  /\ vbStart' = [vbStart EXCEPT !.calls[c] = "done"]
  /\ UNCHANGED <<mmVars, vbVars, botVars, orchVars, tickVars, fnVars, notVbStart>>

\* stop(): running = false; if (this.timer) { clearInterval(this.timer); this.timer = null };
\* the saveState it then awaits touches neither
StopCall ==
  /\ vbStart.stops < MaxStops
  /\ vbStart' = [vbStart EXCEPT !.running = FALSE, !.timer = 0,
                                !.liveTimers = @ \ {vbStart.timer},
                                !.stops = @ + 1]
  /\ UNCHANGED <<mmVars, vbVars, botVars, orchVars, tickVars, fnVars, notVbStart>>

StartStopNext ==
  \/ \E c \in 1..MaxStartCalls :
        \/ StartCall(c)
        \/ StartRunning(c)
        \/ StartSetInterval(c)
        \/ StartFails(c)
        \/ StartReturns(c)
  \/ StopCall

SpecStartStop == Init /\ [][StartStopNext]_vars

\* every start() call made has returned or thrown
allStartsReturned == \A c \in 1..MaxStartCalls : vbStart.calls[c] \in {"none", "done", "failed"}

\* C35: whatever the interleaving of the start() and stop() calls on one VolumeBot, at most
\* one interval timer is live, and none is live when running is false and every call has
\* returned.
C35_AtMostOneTimer ==
  /\ Cardinality(vbStart.liveTimers) <= 1
  /\ (~vbStart.running /\ allStartsReturned) => vbStart.liveTimers = {}

\* C36: for a target price whose tick lies within [MIN_TICK, MAX_TICK], the range
\* limitOrderRange returns contains that tick: lowerTick <= priceToTick(targetPrice) <=
\* upperTick.
C36_RangeContainsTargetTick ==
  tickCall.rangeDone =>
     /\ tickCall.lowerTick <= tickCall.tick
     /\ tickCall.tick <= tickCall.upperTick

-----------------------------------------------------------------------------
(* VolumeBot.rebalanceIfNeeded(target), step 8 of tick(), called twice in a  *)
(* row at one market price                                                   *)

\* this.inventory.btc + this.inventory.token * this.marketData.price
vbTotalValueBTC(bot) == bot.inventory.btc + (bot.inventory.token * bot.price) \div PriceScale

\* currentBTCRatio, in bps; the ratio of an empty inventory is NaN, which no comparison
\* finds above the threshold: 0 here, with the skew test guarded
currentBTCRatio(bot) ==
  IF vbTotalValueBTC(bot) = 0 THEN 0
  ELSE (bot.inventory.btc * RatioScale) \div vbTotalValueBTC(bot)

\* variant: the trade moves the inventory half of the way to the target
rebalanceIfNeededHalfway(bot, targetBTCRatio) ==
  LET totalValueBTC == vbTotalValueBTC(bot)
      ratio == currentBTCRatio(bot)
  IN  IF totalValueBTC = 0 \/ Abs(ratio - targetBTCRatio) <= vbRebalanceThresholdBP
      THEN bot
      ELSE IF ratio > targetBTCRatio
      THEN marketBuy(bot, (totalValueBTC * (ratio - targetBTCRatio)) \div (2 * RatioScale))
      ELSE marketSell(bot, (((totalValueBTC * (targetBTCRatio - ratio)) \div (2 * RatioScale))
                               * PriceScale) \div bot.price)

\* rebalanceIfNeeded(target): targetBTCRatio is target.btc in bps
rebalanceIfNeeded(bot, targetBTCRatio) ==
  LET totalValueBTC == vbTotalValueBTC(bot)
      ratio == currentBTCRatio(bot)
  IN  IF totalValueBTC = 0 \/ Abs(ratio - targetBTCRatio) <= vbRebalanceThresholdBP
      THEN bot
      ELSE IF ratio > targetBTCRatio
      THEN marketBuy(bot, (totalValueBTC * (ratio - targetBTCRatio)) \div RatioScale)
      ELSE marketSell(bot, (((totalValueBTC * (targetBTCRatio - ratio)) \div RatioScale)
                               * PriceScale) \div bot.price)

\* the inventories, given by their total value and the share of it held in BTC (bps), the
\* market prices, and the targets (inventoryTarget.btc of RAD, of BOTT, and an even split)
RebalanceTotals == {5 * orderSizeBTC, 10 * orderSizeBTC}
RebalanceShares == {0, 2000, 3250, 3300, 4250, 4500, 5250, 5300, 8000, RatioScale}
RebalancePrices == {PriceScale \div 2, PriceScale}
RebalanceTargets == {RatioScale - targetTokenRatioBP, 4500, 5000}

InitRebalance ==
  /\ InitOthers
  /\ InitTickCall
  /\ InitSpreadCall
  /\ InitLadder
  /\ InitTracker
  /\ InitFeeCall
  /\ createError = "none"
  /\ InitVbStart
  /\ InitVt
  /\ \E total \in RebalanceTotals, share \in RebalanceShares, price \in RebalancePrices,
        target \in RebalanceTargets :
        LET btc == (total * share) \div RatioScale
        IN  rebal = rebalCall(ladderBot(btc, ((total - btc) * PriceScale) \div price, price,
                                        ladderLevels, FALSE, reverseTradeRatioBP),
                              target)

\* await this.rebalanceIfNeeded(target)
RebalanceIfNeeded ==
  /\ rebal.calls < 2
  /\ rebal' = [rebal EXCEPT !.calls = @ + 1,
                            !.bot = rebalanceIfNeeded(rebal.bot, rebal.target)]
  /\ UNCHANGED <<mmVars, vbVars, botVars, orchVars, tickVars, fnVars, notRebal>>

RebalanceNext == RebalanceIfNeeded

SpecRebalance == InitRebalance /\ [][RebalanceNext]_vars

\* the first call found the BTC share of the total value more than the threshold away
\* from the target
rebalNeeded ==
  LET total == rebal.before.btc + (rebal.before.token * rebal.bot.price) \div PriceScale
  IN  /\ total > 0
      /\ Abs((rebal.before.btc * RatioScale) \div total - rebal.target) > vbRebalanceThresholdBP

\* C37: when rebalanceIfNeeded finds the BTC share of the total value more than
\* rebalanceThreshold away from target.btc, it issues one market trade, after which the
\* BTC share is target.btc at the market price and the total value is what it was; a
\* second call right after it issues no trade.
C37_RebalanceReachesTarget ==
  (rebal.calls >= 1 /\ rebalNeeded) =>
     LET total == rebal.before.btc + (rebal.before.token * rebal.bot.price) \div PriceScale
     IN  /\ rebal.bot.reverseTrades = 1
         /\ vbTotalValueBTC(rebal.bot) = total
         /\ rebal.bot.inventory.btc * RatioScale = total * rebal.target

\* two calls were made, the first traded and the second did not
C37_SecondCallTradesNothing ==
  /\ rebal.calls = 2
  /\ rebalNeeded
  /\ rebal.bot.reverseTrades = 1
  /\ rebal.bot.inventory # rebal.before

-----------------------------------------------------------------------------
(* VolumeTrader: one action per iteration of the loop of run(). The price    *)
(* fetchCurrentPrice returns and the coin makeVolumeTrade throws are the     *)
(* environment's; the iteration's awaits resume without another task in      *)
(* between. Iteration i runs at time i, in loop intervals.                   *)

\* variant: the fee is charged on top, the tokens bought are worth the whole amount
buyFeeOnTop(t, amountBTC, price, type) ==
  LET fee == (amountBTC * traderFeePct) \div 100
      tokensReceived == (amountBTC * PriceScale) \div price
  IN  [t EXCEPT !.btc = @ - amountBTC, !.tokens = @ + tokensReceived,
                !.trades = @ + 1, !.lastTrade = t.iter,
                !.feesPaid = @ + fee, !.feeSum = @ + fee,
                ![type] = @ + 1]

\* buy(amountBTC, price, type)
buy(t, amountBTC, price, type) ==
  LET fee == (amountBTC * traderFeePct) \div 100
      netBTC == amountBTC - fee
      tokensReceived == (netBTC * PriceScale) \div price
  IN  [t EXCEPT !.btc = @ - amountBTC, !.tokens = @ + tokensReceived,
                !.trades = @ + 1, !.lastTrade = t.iter,
                !.feesPaid = @ + fee, !.feeSum = @ + fee,
                ![type] = @ + 1]

\* sell(amountTokens, price, type)
sell(t, amountTokens, price, type) ==
  LET btcReceived == (amountTokens * price) \div PriceScale
      fee == (btcReceived * traderFeePct) \div 100
      netBTC == btcReceived - fee
  IN  [t EXCEPT !.tokens = @ - amountTokens, !.btc = @ + netBTC,
                !.trades = @ + 1, !.lastTrade = t.iter,
                !.feesPaid = @ + fee, !.feeSum = @ + fee,
                ![type] = @ + 1]

\* the trades of the last 24 hours: every trade, as long as the loop has run for less
\* than a day
recentTrades(t) == t.trades

\* shouldMakeVolumeTrade(): fewer than maxDailyTrades recent trades, and a
\* volumeTradeInterval (one loop interval) since the latest trade
shouldMakeVolumeTrade(t) ==
  /\ recentTrades(t) < maxDailyTrades
  /\ t.trades > 0 => t.iter - t.lastTrade >= 1

\* makeVolumeTrade(currentPrice), isBuy being Math.random() < 0.5
makeVolumeTrade(t, price, isBuy) ==
  LET canBuy == t.btc >= volumeTradeSize
      canSell == (t.tokens * price) \div PriceScale >= volumeTradeSize
  IN  IF ~shouldMakeVolumeTrade(t) THEN t
      ELSE IF isBuy /\ canBuy THEN buy(t, volumeTradeSize, price, "volume")
      ELSE IF ~isBuy /\ canSell
           THEN sell(t, (volumeTradeSize * PriceScale) \div price, price, "volume")
      ELSE t

\* priceTracker.isAtDip(threshold): (current - mean) / mean < -threshold, the mean being
\* priceSum / priceCount over the last 48 prices
isAtDip(t) == 100 * t.price * t.priceCount < (100 - meanReversionThresholdPct) * t.priceSum
\* priceTracker.isAtPump(threshold)
isAtPump(t) == 100 * t.price * t.priceCount > (100 + meanReversionThresholdPct) * t.priceSum

\* makeProfitTrade(currentPrice)
makeProfitTrade(t, price) ==
  LET tokensToSell == (profitTradeSize * PriceScale) \div price
  IN  IF isAtDip(t) /\ t.btc >= profitTradeSize THEN buy(t, profitTradeSize, price, "profit")
      ELSE IF isAtPump(t) /\ t.tokens >= tokensToSell
           THEN sell(t, tokensToSell, price, "profit")
      ELSE t

\* rebalance(currentPrice, threshold = 0.3): deviation = |btc / total - 0.5|
vtRebalance(t, price) ==
  LET tokensValue == (t.tokens * price) \div PriceScale
      totalValueBTC == t.btc + tokensValue
  IN  IF totalValueBTC = 0
         \/ 100 * Abs(2 * t.btc - totalValueBTC) <= 2 * traderRebalanceThresholdPct * totalValueBTC
      THEN t
      ELSE IF 2 * t.btc > totalValueBTC
      THEN buy(t, (2 * t.btc - totalValueBTC) \div 4, price, "rebalance")
      ELSE sell(t, (((2 * tokensValue - totalValueBTC) \div 4) * PriceScale) \div price, price,
                "rebalance")

\* the capitals, and the markets: one whose price stays at the token's price, one whose
\* price is 2% below or 2% above it (the random move of fetchCurrentPrice at its ends)
TraderCapitals == {4 * volumeTradeSize, 10 * volumeTradeSize, 40 * volumeTradeSize}
FlatMarket == {InitPrice}
MovingMarket == {(98 * InitPrice) \div 100, (102 * InitPrice) \div 100}

InitTrader ==
  /\ InitOthers
  /\ InitTickCall
  /\ InitSpreadCall
  /\ InitLadder
  /\ InitTracker
  /\ InitFeeCall
  /\ createError = "none"
  /\ InitVbStart
  /\ InitRebal
  /\ \/ \E capitalBTC \in TraderCapitals : vt = newTrader(capitalBTC, InitPrice, FlatMarket)
     \/ vt = newTrader(40 * volumeTradeSize, InitPrice, MovingMarket)

\* one iteration of while (this.running): fetchCurrentPrice, priceTracker.addPrice,
\* makeProfitTrade, makeVolumeTrade, rebalance, then the sleep of one interval
TraderIteration(price, isBuy) ==
  LET t0 == [vt EXCEPT !.iter = @ + 1, !.price = price,
                       !.priceSum = @ + price, !.priceCount = @ + 1,
                       !.constant = @ /\ price = vt.price]
  IN  /\ vt.iter < MaxIterations
      /\ vt' = vtRebalance(makeVolumeTrade(makeProfitTrade(t0, price), price, isBuy), price)
      /\ UNCHANGED <<mmVars, vbVars, botVars, orchVars, tickVars, fnVars, notVt>>

TraderNext ==
  \E price \in vt.fetched, isBuy \in BOOLEAN : TraderIteration(price, isBuy)

SpecTrader == InitTrader /\ [][TraderNext]_vars

\* C38: VolumeTrader never has more than maxDailyTrades trades, of the three types
\* together, recorded within 24 hours.
C38_DailyTradesLimited ==
  vt.iter < dayIntervals => vt.trades <= maxDailyTrades

\* C39: as long as every price has been the start price, after any sequence of trades
\* btc + tokens * price + feesPaid is capitalBTC, feesPaid is the sum of the fees of the
\* recorded trades, and btc and tokens are not negative.
C39_ValueConservedAtConstantPrice ==
  vt.constant =>
     /\ vt.btc + (vt.tokens * vt.price) \div PriceScale + vt.feesPaid = vt.capitalBTC
     /\ vt.feesPaid = vt.feeSum
     /\ vt.btc >= 0
     /\ vt.tokens >= 0

\* at a constant price volume trades and a rebalance trade have been made
C39_TradedAndRebalanced ==
  /\ vt.constant
  /\ vt.volume >= 2
  /\ vt.rebalance >= 1
  /\ vt.feesPaid > 0

====
